---------------------------- MODULE Spec2Model ----------------------------
(***************************************************************************)
(* SynXpo server: the Storage engine (src/src/server/storage.cpp), the     *)
(* subscription registry (src/src/server/subscriptions.cpp) and the        *)
(* per-connection stream session (src/src/server/service.cpp).             *)
(*                                                                         *)
(* Every connection runs SyncServiceImpl::Stream on a thread of its own.   *)
(* Each Storage method takes Storage::mutex_ for its own duration only, so *)
(* a handler that calls several Storage methods is a sequence of atomic    *)
(* steps, and the steps of different sessions interleave.  The position of *)
(* a session inside a handler is pc[c].                                     *)
(*                                                                         *)
(* Ids (clients, directories, files) and paths are strings as in the code; *)
(* the empty string is the code's empty std::string.  GenerateUuid is      *)
(* modelled by drawing the next unused name of a fixed list.  Wall-clock   *)
(* time is abstracted: an inactivity timeout may strike any message that   *)
(* arrives while an upload is pending, so PendingUpload::last_write_time   *)
(* and received_first_write, which only select the limit, are left out.    *)
(* FileType is carried through the code unchanged and read by nothing, so  *)
(* it is left out of the records.                                          *)
(***************************************************************************)
EXTENDS Naturals, Sequences, FiniteSets, TLC

\* ---------------------------------------------------------------- bounds
MaxTime == 2        \* first_try_time values are 1..MaxTime
MaxLen == 2         \* bytes in one upload buffer
MaxAsks == 3        \* ASK_VERSION_INCREASE messages the sessions send in all

\* ------------------------------------------------------------- vocabulary
Clients == {"c1", "c2", "c3"}
DirNames == <<"d1">>
FileNames == <<"f1", "f2", "f3", "f4">>
Paths == {"p1", "p2"}
Times == 1..MaxTime

EmptyId == ""
EmptyPath == ""
NoClient == ""
UnknownDir == "dx"

FREE == "FREE"
BLOCKED == "BLOCKED"
DENIED == "DENIED"

\* ------------------------------------------------------------- small maps
EmptyMap == [x \in {} |-> x]

MapErase(m, k) == [x \in DOMAIN m \ {k} |-> m[x]]

MapPut(m, k, v) == [x \in DOMAIN m \union {k} |-> IF x = k THEN v ELSE m[x]]

\* ----------------------------------------------------------------- state
VARIABLES
    dirs,         \* Storage::directories_: the ids of the directories
    files,        \* Directory::files of all directories: file id -> StoredFile
    path_to_id,   \* Directory::path_to_id: directory id -> (path -> file id)
    backups,      \* Storage::backups_: client id -> (file id -> StoredFile)
    disk,         \* the blobs under storage_root_: file id -> bytes
    subs,         \* SubscriptionManager::subscriptions_: directory id -> clients
    streams,      \* SubscriptionManager::client_streams_: clients with a handle
    pc,           \* each session's position in Stream and its handlers
    cur,          \* the handler's locals: the request and the `updated` list
    pending,      \* Stream's local std::optional<PendingUpload>
    delivered,    \* CHECK_VERSION notifications written to each client's stream
    committedT,   \* history: file id -> largest first_try_time committed to it
    judgedFree,   \* history: file id -> the latest FREE judgement on the file
    memfault,     \* a FILE_WRITE chunk was copied past the end of its buffer
    asked,        \* ASK_VERSION_INCREASE messages received so far, all sessions
    reply,        \* per session: what is owed to the request with an id read last
    \* GRPCClient (client side)
    call,                 \* each SendMessageWithResponse call's position
    waiters_,             \* GRPCClient::waiters_: request ids waited for
    waiter,               \* Waiter::done, Waiter::result of each call's waiter
    inbound,              \* server messages on the stream, not yet read
    answered,             \* request ids the server has responded to
    callback_queue_,      \* GRPCClient::callback_queue_
    \* Synchronizer (client side)
    tree,                 \* the paths that exist under the watched directory
    events,               \* watcher events raised and not yet delivered
    files_being_written,  \* DirectoryState::files_being_written
    pending_changes,      \* DirectoryState::pending_changes (its keys)
    download_state_,      \* Synchronizer::download_state_
    applying,             \* position and arguments of ApplyRenamesAndDeletes
    sent_changes,         \* paths sent in ASK_VERSION_INCREASE messages
    \* IFileMetadataStorage implementations (client side)
    mem_directories_,     \* InMemoryFileMetadataStorage::directories_
    sql_db,               \* the SQLite tables `directories` and `files`
    sql_directories_,     \* SqliteFileMetadataStorage::directories_ (cache)
    \* Synchronizer's upload and download flows (client side)
    directory_states_,    \* DirectoryState: blocked_files, pending_changes
    storage_,             \* Synchronizer::storage_: file id -> FileMetadata
    downloaded,           \* file id -> content_changed_version of the bytes held
    remote,               \* the server's records of the directory
    check_versions,       \* CHECK_VERSION messages received, not yet processed
    flow,                 \* position and locals of the flow that is running
    sent,                 \* history: the requests the flows have sent
    refused,              \* history: ids refused as BLOCKED, not downloaded since
    \* Synchronizer's download transfer (client side)
    thread,               \* each RequestFileContents call's position
    requests,             \* REQUEST_FILE_CONTENT messages the server has not read
    local_files,          \* the bytes of the files under the watched directory
    ignored,              \* history: the messages a handler returned from unused
    \* GRPCClient's mutexes (client side)
    owner,                \* waiters_mutex_ and Waiter::mutex: the thread that holds it
    position              \* each thread's position in its function

GrpcVars == <<call, waiters_, waiter, inbound, answered, callback_queue_>>

SyncVars == <<tree, events, files_being_written, pending_changes,
              download_state_, applying, sent_changes>>

StoreVars == <<mem_directories_, sql_db, sql_directories_>>

EngineVars == <<directory_states_, storage_, downloaded, remote,
                check_versions, flow, sent, refused>>

TransferVars == <<thread, requests, local_files, ignored>>

LockVars == <<owner, position>>

ClientVars == <<GrpcVars, SyncVars, StoreVars, EngineVars, TransferVars,
                LockVars>>

vars == <<dirs, files, path_to_id, backups, disk, subs, streams, pc, cur,
          pending, delivered, committedT, judgedFree, memfault, asked,
          reply, ClientVars>>

ServerVars == <<dirs, files, path_to_id, backups, disk, subs, streams, pc, cur,
                pending, delivered, committedT, judgedFree, memfault, asked,
                reply>>

\* ------------------------------------------------------- Storage: lookups
\* GenerateUuid: a fresh id; file and directory ids never repeat.
GenerateUuid(fs) == FileNames[Cardinality(DOMAIN fs) + 1]

GenerateDirUuid == DirNames[Cardinality(dirs) + 1]

\* dir_it->second.files.find(id)
FindById(fs, d, id) ==
    IF id # EmptyId /\ id \in DOMAIN fs /\ fs[id].directory_id = d
    THEN id ELSE EmptyId

\* dir_it->second.path_to_id.find(path)
FindByPath(idx, d, p) ==
    IF p # EmptyPath /\ p \in DOMAIN idx[d] THEN idx[d][p] ELSE EmptyId

\* CheckVersionIncrease: by id, and by path when the id found nothing.
FindForCheck(fs, idx, fi) ==
    LET byId == FindById(fs, fi.directory_id, fi.id)
    IN  IF byId # EmptyId THEN byId
        ELSE FindByPath(idx, fi.directory_id, fi.current_path)

\* LockFilesForWrite and ApplyVersionIncrease: by id when the request carries
\* one, by path only when it carries none.
FindForCommit(fs, idx, fi) ==
    IF fi.id # EmptyId THEN FindById(fs, fi.directory_id, fi.id)
    ELSE FindByPath(idx, fi.directory_id, fi.current_path)

\* --------------------------------------------- Storage: CheckVersionIncrease
\* A faulty arbiter that admits later timestamps only, and so denies the
\* repeat of the request it admitted last.
ArbiterStatusLaterOnly(client, f, t) ==
    IF f.last_try.time < t
    THEN IF f.status = BLOCKED /\ f.locked_by_client # client THEN BLOCKED
         ELSE IF f.is_being_read THEN BLOCKED
         ELSE FREE
    ELSE DENIED

\* A faulty arbiter that lets a request through whose first_try_time equals
\* last_try's, whoever made that earlier try.
ArbiterStatusTieFree(client, f, t) ==
    IF f.last_try.time > t THEN DENIED
    ELSE IF f.status = BLOCKED /\ f.locked_by_client # client THEN BLOCKED
    ELSE IF f.is_being_read THEN BLOCKED
    ELSE FREE

\* The LAST_TRY arbiter for one existing file f and a request of `client`
\* with first_try_time t.
ArbiterStatus(client, f, t) ==
    IF f.last_try.time > t THEN DENIED
    ELSE IF f.last_try.time < t
            \/ (f.last_try.time = t /\ f.last_try.connection_id = client)
         THEN IF f.status = BLOCKED /\ f.locked_by_client # client THEN BLOCKED
              ELSE IF f.is_being_read THEN BLOCKED
              ELSE FREE
    ELSE DENIED

RECURSIVE CheckLoop(_, _, _, _, _, _)
CheckLoop(client, req, i, fs, idx, res) ==
    IF i > Len(req) THEN [files |-> fs, results |-> res]
    ELSE
      LET fi == req[i]
          fid == FindForCheck(fs, idx, fi)
      IN  IF fi.directory_id \notin dirs
          THEN CheckLoop(client, req, i + 1, fs, idx,
                   Append(res, [file_id |-> EmptyId, status |-> DENIED,
                                directory_id |-> fi.directory_id]))
          ELSE IF fid = EmptyId
          THEN CheckLoop(client, req, i + 1, fs, idx,
                   Append(res, [file_id |-> EmptyId, status |-> FREE,
                                directory_id |-> fi.directory_id]))
          ELSE
            LET st == ArbiterStatus(client, fs[fid], fi.first_try_time)
                fs2 == IF st = FREE
                       THEN [fs EXCEPT ![fid].last_try =
                                [time |-> fi.first_try_time,
                                 connection_id |-> client]]
                       ELSE fs
            IN  CheckLoop(client, req, i + 1, fs2, idx,
                    Append(res, [file_id |-> fid, status |-> st,
                                 directory_id |-> fi.directory_id]))

CheckVersionIncrease(client, req, fs, idx) ==
    CheckLoop(client, req, 1, fs, idx, <<>>)

\* ------------------------------------------------ Storage: LockFilesForWrite
RECURSIVE LockLoop(_, _, _, _, _, _)
LockLoop(client, req, i, fs, idx, bk) ==
    IF i > Len(req) THEN [files |-> fs, backups |-> bk]
    ELSE
      LET fi == req[i]
          fid == IF fi.directory_id \in dirs THEN FindForCommit(fs, idx, fi)
                 ELSE EmptyId
      IN  IF fid = EmptyId THEN LockLoop(client, req, i + 1, fs, idx, bk)
          ELSE LockLoop(client, req, i + 1,
                   [fs EXCEPT ![fid].status = BLOCKED,
                              ![fid].locked_by_client = client],
                   idx,
                   [bk EXCEPT ![client] = MapPut(@, fid, fs[fid])])

LockFilesForWrite(client, req, fs, idx, bk) ==
    LockLoop(client, req, 1, fs, idx, bk)

\* --------------------------------------------- Storage: ApplyVersionIncrease
Metadata(id, f) ==
    [id |-> id, directory_id |-> f.directory_id, version |-> f.version,
     content_changed_version |-> f.content_changed_version,
     current_path |-> f.current_path, deleted |-> f.deleted]

\* A faulty commit that leaves the version where it was.
NextVersionKept(v) == v

\* existing_file->version++
NextVersion(v) == v + 1

\* A faulty commit that moves content_changed_version on every commit.
NextContentChangedVersionAlways(ccv, v, content_changed) == v

\* content_changed_version follows the new version when the content changed.
NextContentChangedVersion(ccv, v, content_changed) ==
    IF content_changed THEN v ELSE ccv

\* One entry of the request that names the existing record fid.
ApplyExisting(S, fi, fid, contents) ==
    LET f == S.files[fid]
        v == NextVersion(f.version)
        key == IF fid \in DOMAIN contents THEN fid ELSE fi.current_path
        hasContent == fi.content_changed /\ key \in DOMAIN contents
        f2 == [f EXCEPT
                 !.version = v,
                 !.content_changed_version =
                     NextContentChangedVersion(@, v, fi.content_changed),
                 !.content = IF hasContent THEN contents[key] ELSE @,
                 !.current_path = fi.current_path,
                 !.status = FREE,
                 !.locked_by_client = NoClient,
                 !.deleted = fi.deleted]
        d1 == IF hasContent THEN MapPut(S.disk, fid, contents[key]) ELSE S.disk
        d2 == IF fi.deleted /\ ~f.deleted THEN MapErase(d1, fid) ELSE d1
        m0 == S.idx[fi.directory_id]
        m1 == IF f.current_path # fi.current_path
              THEN MapErase(m0, f.current_path) ELSE m0
        m2 == IF ~fi.deleted THEN MapPut(m1, fi.current_path, fid)
              ELSE MapErase(m1, fi.current_path)
    IN  [files |-> [S.files EXCEPT ![fid] = f2],
         idx |-> [S.idx EXCEPT ![fi.directory_id] = m2],
         disk |-> d2,
         updated |-> Append(S.updated, Metadata(fid, f2))]

\* One entry of the request that names no existing record.
ApplyNew(S, client, fi, contents) ==
    LET id == GenerateUuid(S.files)
        hasContent == fi.content_changed /\ fi.current_path \in DOMAIN contents
        f == [directory_id |-> fi.directory_id,
              version |-> 1,
              content_changed_version |-> IF fi.content_changed THEN 1 ELSE 0,
              current_path |-> fi.current_path,
              deleted |-> fi.deleted,
              content |-> IF hasContent THEN contents[fi.current_path] ELSE <<>>,
              status |-> FREE,
              locked_by_client |-> NoClient,
              is_being_read |-> FALSE,
              last_try |-> [time |-> fi.first_try_time,
                            connection_id |-> client]]
        m0 == S.idx[fi.directory_id]
    IN  [files |-> MapPut(S.files, id, f),
         idx |-> IF ~fi.deleted
                 THEN [S.idx EXCEPT ![fi.directory_id] =
                          MapPut(m0, fi.current_path, id)]
                 ELSE S.idx,
         disk |-> IF hasContent
                  THEN MapPut(S.disk, id, contents[fi.current_path])
                  ELSE S.disk,
         updated |-> Append(S.updated, Metadata(id, f))]

RECURSIVE ApplyLoop(_, _, _, _, _)
ApplyLoop(client, req, i, contents, S) ==
    IF i > Len(req) THEN S
    ELSE
      LET fi == req[i]
          fid == IF fi.directory_id \in dirs
                 THEN FindForCommit(S.files, S.idx, fi) ELSE EmptyId
      IN  IF fi.directory_id \notin dirs
          THEN ApplyLoop(client, req, i + 1, contents, S)
          ELSE IF fid # EmptyId
          THEN ApplyLoop(client, req, i + 1, contents,
                         ApplyExisting(S, fi, fid, contents))
          ELSE ApplyLoop(client, req, i + 1, contents,
                         ApplyNew(S, client, fi, contents))

\* The result: the new files, path index and blobs, and the `updated` list.
\* The caller also drops backups_[client].
ApplyVersionIncrease(client, req, contents, fs, idx, dk) ==
    ApplyLoop(client, req, 1, contents,
              [files |-> fs, idx |-> idx, disk |-> dk, updated |-> <<>>])

\* --------------------------------------------------- Storage: RollbackUpload
RECURSIVE UnlockLoop(_, _, _, _)
UnlockLoop(client, req, i, fs) ==
    IF i > Len(req) THEN fs
    ELSE
      LET fi == req[i]
          fid == IF fi.directory_id \in dirs
                 THEN FindById(fs, fi.directory_id, fi.id) ELSE EmptyId
      IN  IF fid # EmptyId /\ fs[fid].locked_by_client = client
          THEN UnlockLoop(client, req, i + 1,
                   [fs EXCEPT ![fid].status = FREE,
                              ![fid].locked_by_client = NoClient])
          ELSE UnlockLoop(client, req, i + 1, fs)

\* Every backup of the client is copied back over the live record, then the
\* files the request names by id and that the client still holds are unlocked.
\* The caller also drops backups_[client].
RollbackUpload(client, req, fs, bk) ==
    LET restored == [id \in DOMAIN fs |->
                        IF id \in DOMAIN bk[client]
                           /\ bk[client][id].directory_id \in dirs
                        THEN bk[client][id] ELSE fs[id]]
    IN  UnlockLoop(client, req, 1, restored)

\* ----------------------------------------------------- Storage: ReleaseLocks
ReleaseLocks(client, fs) ==
    [id \in DOMAIN fs |->
        IF fs[id].locked_by_client = client
        THEN [fs[id] EXCEPT !.status = FREE, !.locked_by_client = NoClient]
        ELSE fs[id]]

\* ------------------------------------------------------ Storage: reads
\* GetFile: the snapshot's content, read from disk when the record holds none
\* in memory and is not deleted; a missing blob reads as no bytes.
ReadFileContent(dk, id) == IF id \in DOMAIN dk THEN dk[id] ELSE <<>>

GetFileContent(fs, dk, id) ==
    IF ~fs[id].deleted /\ fs[id].content = <<>>
    THEN ReadFileContent(dk, id) ELSE fs[id].content

\* GetDirectoryFiles: the metadata of the directory's records not deleted.
GetDirectoryFiles(fs, d) ==
    LET ids == {id \in DOMAIN fs : fs[id].directory_id = d /\ ~fs[id].deleted}
    IN  [id \in ids |-> Metadata(id, fs[id])]

\* CheckFilesForRead, for one file of one directory.
ReadStatus(fs, d, id) ==
    IF d \notin dirs THEN DENIED
    ELSE IF FindById(fs, d, id) = EmptyId THEN DENIED
    ELSE IF fs[id].status = BLOCKED THEN BLOCKED
    ELSE FREE

\* ------------------------------------------------- session: HandleFileWrite
RECURSIVE Zeros(_)
Zeros(n) == IF n = 0 THEN <<>> ELSE <<0>> \o Zeros(n - 1)

Min(a, b) == IF a < b THEN a ELSE b

\* The first file of the request that needs content, as the chunk's key.
RECURSIVE FirstNeedingContent(_, _)
FirstNeedingContent(req, i) ==
    IF i > Len(req) THEN EmptyPath
    ELSE IF req[i].content_changed /\ ~req[i].deleted THEN req[i].current_path
    ELSE FirstNeedingContent(req, i + 1)

FileKey(req, chunk) ==
    IF chunk.current_path # EmptyPath THEN chunk.current_path
    ELSE IF chunk.id # EmptyId THEN chunk.id
    ELSE FirstNeedingContent(req, 1)

\* The buffer after the chunk: resized (zero-filled) only when the offset is at
\* or past its end, then the data copied at the offset.  The bytes that fall
\* past the end of the buffer are written outside it.
WriteAt(buf, off, data) ==
    LET grown == IF off >= Len(buf)
                 THEN buf \o Zeros(off + Len(data) - Len(buf)) ELSE buf
        k == Min(Len(data), Len(grown) - off)
    IN  SubSeq(grown, 1, off) \o SubSeq(data, 1, k)
            \o SubSeq(grown, off + k + 1, Len(grown))

WritesPastEnd(buf, off, data) ==
    off < Len(buf) /\ off + Len(data) > Len(buf)

HandleFileWrite(p, chunk) ==
    LET key == FileKey(p.request, chunk)
        old == IF key \in DOMAIN p.file_contents THEN p.file_contents[key]
               ELSE <<>>
    IN  IF key = EmptyPath THEN p
        ELSE [p EXCEPT !.file_contents =
                           MapPut(@, key, WriteAt(old, chunk.offset, chunk.data))]

\* ------------------------------------------------------ session: records
NoPending ==
    [active |-> FALSE, request |-> <<>>, file_contents |-> EmptyMap]

NoCur ==
    [request |-> <<>>, results |-> <<>>, dir |-> EmptyId, listing |-> EmptyMap,
     served |-> <<>>]

\* A faulty handler that looks at the first result only.
AllFreeFirstOnly(results) == results = <<>> \/ results[1].status = FREE

AllFree(results) == \A i \in 1..Len(results) : results[i].status = FREE

NeedsContent(req) ==
    \E i \in 1..Len(req) : req[i].content_changed /\ ~req[i].deleted

AllFileIds == {FileNames[i] : i \in 1..Len(FileNames)}

AllDirIds == {DirNames[i] : i \in 1..Len(DirNames)} \union {UnknownDir}

\* History: the largest first_try_time committed to each file.  `updated` has
\* one entry per entry of the request (its directories exist: it passed the check).
RECURSIVE CommittedAfter(_, _, _, _)
CommittedAfter(req, updated, i, ct) ==
    IF i > Len(req) \/ i > Len(updated) THEN ct
    ELSE CommittedAfter(req, updated, i + 1,
             [ct EXCEPT ![updated[i].id] =
                 IF req[i].first_try_time > @ THEN req[i].first_try_time ELSE @])

\* History: the latest FREE judgement of CheckVersionIncrease on each existing
\* file: who asked and with which first_try_time.
RECURSIVE JudgedAfter(_, _, _, _, _)
JudgedAfter(client, req, results, i, jf) ==
    IF i > Len(req) THEN jf
    ELSE IF results[i].status = FREE /\ results[i].file_id # EmptyId
    THEN JudgedAfter(client, req, results, i + 1,
             [jf EXCEPT ![results[i].file_id] =
                 [time |-> req[i].first_try_time, connection_id |-> client]])
    ELSE JudgedAfter(client, req, results, i + 1, jf)

\* ------------------------------------------------------ session: replies
\* A handler copies the request id of the message it handles into the one
\* response it builds.  QUIET: no request with an id awaits its response;
\* OWED: one has been read and no message echoing its id has been written;
\* SURPLUS: a second message echoing the same id has been written.
QUIET == "quiet"
OWED == "owed"
SURPLUS == "surplus"

\* stream->Read returned a message that carries a request id.
Received(r, c) == [r EXCEPT ![c] = OWED]

\* stream->Write of a response on which set_request_id was called.
Echoed(r, c) == [r EXCEPT ![c] = IF @ = OWED THEN QUIET ELSE SURPLUS]

\* ------------------------------------------------- client side: constants
\* The request ids GenerateUuid gives to the SendMessageWithResponse calls.
Calls == {"r1", "r2"}

\* A server message that carries no request id (has_request_id() is false).
NoId == "none"

\* How many messages without a request id the server pushes.
MaxPush == 1

ServerMessage(id) == [request_id |-> id]

\* Waiter{} as WaitForMessage makes it: not done, no result.
NewWaiter == [done |-> FALSE, result |-> NoId]

\* The relative paths of the watched directory, and the path of the temp file
\* a download is written to.
LocalPaths == {"a", "b"}

TempPath(p) == p \o ".synxpo_tmp"

WatchedPaths == LocalPaths \union {TempPath(p) : p \in LocalPaths}

\* DownloadState{} as constructed and as HandleFileWriteEnd leaves it.
NoDownload == [active |-> FALSE, final_paths |-> {}, files |-> <<>>]

\* The threads that call RequestFileContents: HandleCheckVersion starts one
\* ProcessCheckVersion thread for every CHECK_VERSION.  What each downloads,
\* the bytes the server holds, and its max_chunk_size.
Threads == {"t1", "t2"}

Wanted == [t \in Threads |-> IF t = "t1" THEN "a" ELSE "b"]

ServerContent == [p \in LocalPaths |-> IF p = "a" THEN <<1, 2>> ELSE <<3>>]

max_chunk_size == 1

\* The threads that use GRPCClient's mutexes, and the two mutexes.
NoThread == "none"

LockThreads == {"caller", "reader", "stopper"}

Mutexes == {"waiters_mutex_", "waiter"}

\* ApplyRenamesAndDeletes is not running.
NotApplying == [at |-> "idle", affected_files |-> {}, deleted |-> FALSE,
                old_path |-> "a", file_path |-> "a"]

\* The directory ids, root paths, file ids and relative paths of the client's
\* metadata stores.
StoreDirs == {"d1", "d2"}

\* Root paths as sequences of components; "/" first makes a path absolute.
RootPaths == {<<"/", "x">>, <<"y">>}

\* The working directory std::filesystem::absolute resolves against.
CurrentPath == <<"/", "cwd">>

StoreFiles == {"f1", "f2"}

\* A fresh DirectoryInfo: the given root path, no files, an empty path index.
DirectoryInfo(p) == [path |-> p, files |-> EmptyMap, path_to_id |-> EmptyMap]

\* ------------------------------------------ Synchronizer flows: constants
\* FileChangeInfo::file_id of a file the local metadata does not know.
Nullopt == "nullopt"

\* Bounds: the server's version counter, the requests the flows send, the
\* CHECK_VERSION messages that wait to be processed.
MaxVersion == 3
MaxSent == 4
MaxChecks == 2

\* The ids the server gives to the files of the directory, in order.
RemoteIds == <<"f1", "f2">>

\* The order in which std::map iterates over pending_changes.
PathOrder == <<"a", "b">>

\* The server's record of the file that exists when the client subscribes.
RemoteFile ==
    [directory_id |-> "d1", version |-> 1, content_changed_version |-> 1,
     current_path |-> "a", deleted |-> FALSE, status |-> FREE]

\* DirectoryState{} as constructed.
NoDirectoryState == [blocked_files |-> {}, pending_changes |-> EmptyMap]

\* No flow is running: neither the debounce loop nor a ProcessCheckVersion
\* thread is inside a call.  `holding`: the flow holds state_mutex_; `deny`:
\* the file statuses of the VERSION_INCREASE_DENY the flow received last;
\* `seen`: history, the `blocked` of the CHECK_VERSION the flow processes;
\* `server_files` and the to_ fields: the arguments and the VersionDiff of a
\* ProcessCheckVersion call; `next`: the call's position in its sequence of
\* operations; `done`: history, the operations the call has performed;
\* `partial`: history, the CHECK_VERSION answers a per-file REQUEST_VERSION.
NoFlow ==
    [at |-> "idle", changes |-> <<>>, to_delete_local |-> {},
     to_upload |-> <<>>, denied |-> <<>>, holding |-> FALSE,
     from_check |-> FALSE, deny |-> <<>>, seen |-> {},
     server_files |-> <<>>, to_rename_delete |-> <<>>, to_download |-> <<>>,
     partial |-> FALSE, next |-> 1, done |-> <<>>]

ClientInit ==
    /\ call = [r \in Calls |-> "new"]
    /\ waiters_ = {}
    /\ waiter = [r \in Calls |-> NewWaiter]
    /\ inbound = <<>>
    /\ answered = {}
    /\ callback_queue_ = <<>>
    /\ tree = {"a"}
    /\ events = {}
    /\ files_being_written = {}
    /\ pending_changes = {}
    /\ download_state_ = NoDownload
    /\ applying = NotApplying
    /\ sent_changes = {}
    /\ mem_directories_ = EmptyMap
    /\ sql_db = [directories |-> EmptyMap, files |-> {}]
    /\ sql_directories_ = EmptyMap
    /\ directory_states_ = NoDirectoryState
    /\ storage_ = EmptyMap
    /\ downloaded = [f \in {RemoteIds[i] : i \in 1..Len(RemoteIds)} |-> 0]
    /\ remote = [f \in {"f1"} |-> RemoteFile]
    /\ check_versions = <<>>
    /\ flow = NoFlow
    /\ sent = <<>>
    /\ refused = {}
    /\ thread = [t \in Threads |-> "new"]
    /\ requests = <<>>
    /\ local_files = EmptyMap
    /\ ignored = <<>>
    /\ owner = [m \in Mutexes |-> NoThread]
    /\ position = [t \in LockThreads |-> "start"]

\* ------------------------------------------------------------------- Init
Init ==
    /\ dirs = {}
    /\ files = EmptyMap
    /\ path_to_id = EmptyMap
    /\ backups = [c \in Clients |-> EmptyMap]
    /\ disk = EmptyMap
    /\ subs = [d \in AllDirIds |-> {}]
    /\ streams = {}
    /\ pc = [c \in Clients |-> "idle"]
    /\ cur = [c \in Clients |-> NoCur]
    /\ pending = [c \in Clients |-> NoPending]
    /\ delivered = [c \in Clients |-> <<>>]
    /\ committedT = [f \in AllFileIds |-> 0]
    /\ judgedFree = [f \in AllFileIds |-> [time |-> 0, connection_id |-> NoClient]]
    /\ memfault = FALSE
    /\ asked = 0
    /\ reply = [c \in Clients |-> QUIET]
    /\ ClientInit

\* ------------------------------------------------ session: DIRECTORY_CREATE
DirectoryCreate(c) ==
    /\ pc[c] = "idle"
    /\ Cardinality(dirs) < Len(DirNames)
    /\ dirs' = dirs \union {GenerateDirUuid}
    /\ path_to_id' = MapPut(path_to_id, GenerateDirUuid, EmptyMap)
    /\ UNCHANGED <<files, backups, disk, subs, streams, pc, cur, pending,
                   delivered, committedT, judgedFree, memfault, asked>>
    /\ reply' = Echoed(Received(reply, c), c)
    /\ UNCHANGED ClientVars

\* ------------------------------------------- session: ASK_VERSION_INCREASE
\* The message is read and CheckVersionIncrease runs under Storage::mutex_.
RecvAsk(c, req) ==
    /\ pc[c] = "idle"
    /\ asked < MaxAsks
    /\ asked' = asked + 1
    /\ LET r == CheckVersionIncrease(c, req, files, path_to_id)
       IN  /\ files' = r.files
           /\ cur' = [cur EXCEPT ![c] =
                        [NoCur EXCEPT !.request = req, !.results = r.results]]
           /\ judgedFree' = JudgedAfter(c, req, r.results, 1, judgedFree)
    /\ pc' = [pc EXCEPT ![c] = "ask_checked"]
    /\ UNCHANGED <<dirs, path_to_id, backups, disk, subs, streams, pending,
                   delivered, committedT, memfault>>
    /\ reply' = Received(reply, c)
    /\ UNCHANGED ClientVars

\* Some result is not FREE: VERSION_INCREASE_DENY.
AskDeny(c) ==
    /\ pc[c] = "ask_checked"
    /\ ~AllFree(cur[c].results)
    /\ pc' = [pc EXCEPT ![c] = "idle"]
    /\ cur' = [cur EXCEPT ![c] = NoCur]
    /\ UNCHANGED <<dirs, files, path_to_id, backups, disk, subs, streams,
                   pending, delivered, committedT, judgedFree, memfault,
                   asked>>
    /\ reply' = Echoed(reply, c)
    /\ UNCHANGED ClientVars

\* All FREE and content is to come: LockFilesForWrite, a new PendingUpload,
\* VERSION_INCREASE_ALLOW.
AskAllow(c) ==
    /\ pc[c] = "ask_checked"
    /\ AllFree(cur[c].results)
    /\ NeedsContent(cur[c].request)
    /\ LET r == LockFilesForWrite(c, cur[c].request, files, path_to_id, backups)
       IN  /\ files' = r.files
           /\ backups' = r.backups
    /\ pending' = [pending EXCEPT ![c] =
                     [active |-> TRUE, request |-> cur[c].request,
                      file_contents |-> EmptyMap]]
    /\ pc' = [pc EXCEPT ![c] = "idle"]
    /\ cur' = [cur EXCEPT ![c] = NoCur]
    /\ UNCHANGED <<dirs, path_to_id, disk, subs, streams, delivered,
                   committedT, judgedFree, memfault, asked>>
    /\ reply' = Echoed(reply, c)
    /\ UNCHANGED ClientVars

\* All FREE and no content is to come: LockFilesForWrite ...
AskLock(c) ==
    /\ pc[c] = "ask_checked"
    /\ AllFree(cur[c].results)
    /\ ~NeedsContent(cur[c].request)
    /\ LET r == LockFilesForWrite(c, cur[c].request, files, path_to_id, backups)
       IN  /\ files' = r.files
           /\ backups' = r.backups
    /\ pc' = [pc EXCEPT ![c] = "ask_apply"]
    /\ cur' = [cur EXCEPT ![c].results = <<>>]
    /\ UNCHANGED <<dirs, path_to_id, disk, subs, streams, pending, delivered,
                   committedT, judgedFree, memfault, asked, reply,
                   ClientVars>>

\* ... then ApplyVersionIncrease without contents and VERSION_INCREASED.
AskApply(c) ==
    /\ pc[c] = "ask_apply"
    /\ LET r == ApplyVersionIncrease(c, cur[c].request, EmptyMap,
                                     files, path_to_id, disk)
       IN  /\ files' = r.files
           /\ path_to_id' = r.idx
           /\ disk' = r.disk
           /\ committedT' = CommittedAfter(cur[c].request, r.updated, 1, committedT)
           /\ IF r.updated # <<>>
              THEN /\ pc' = [pc EXCEPT ![c] = "ask_notify"]
                   /\ cur' = [cur EXCEPT ![c] =
                                [NoCur EXCEPT !.dir = r.updated[1].directory_id]]
              ELSE /\ pc' = [pc EXCEPT ![c] = "idle"]
                   /\ cur' = [cur EXCEPT ![c] = NoCur]
    /\ backups' = [backups EXCEPT ![c] = EmptyMap]
    /\ UNCHANGED <<dirs, subs, streams, pending, delivered, judgedFree,
                   memfault, asked>>
    /\ reply' = Echoed(reply, c)
    /\ UNCHANGED ClientVars

\* ------------------------------------------------------ session: FILE_WRITE
FileWrite(c, chunk) ==
    /\ pc[c] = "idle"
    /\ pending[c].active
    /\ chunk.offset + Len(chunk.data) <= MaxLen
    /\ pending' = [pending EXCEPT ![c] = HandleFileWrite(@, chunk)]
    /\ LET key == FileKey(pending[c].request, chunk)
           old == IF key \in DOMAIN pending[c].file_contents
                  THEN pending[c].file_contents[key] ELSE <<>>
       IN  memfault' = (memfault \/ (key # EmptyPath
                                      /\ WritesPastEnd(old, chunk.offset, chunk.data)))
    /\ UNCHANGED <<dirs, files, path_to_id, backups, disk, subs, streams, pc,
                   cur, delivered, committedT, judgedFree, asked, reply,
                   ClientVars>>

\* -------------------------------------------------- session: FILE_WRITE_END
FileWriteEnd(c) ==
    /\ pc[c] = "idle"
    /\ pending[c].active
    /\ LET r == ApplyVersionIncrease(c, pending[c].request,
                                     pending[c].file_contents,
                                     files, path_to_id, disk)
       IN  /\ files' = r.files
           /\ path_to_id' = r.idx
           /\ disk' = r.disk
           /\ committedT' = CommittedAfter(pending[c].request, r.updated, 1,
                                           committedT)
           /\ IF r.updated # <<>>
              THEN /\ pc' = [pc EXCEPT ![c] = "end_notify"]
                   /\ cur' = [cur EXCEPT ![c] =
                                [NoCur EXCEPT !.dir = r.updated[1].directory_id]]
                   /\ pending' = pending
              ELSE /\ pc' = pc
                   /\ cur' = cur
                   /\ pending' = [pending EXCEPT ![c] = NoPending]
    /\ backups' = [backups EXCEPT ![c] = EmptyMap]
    /\ UNCHANGED <<dirs, subs, streams, delivered, judgedFree, memfault,
                   asked>>
    /\ reply' = Echoed(Received(reply, c), c)
    /\ UNCHANGED ClientVars

\* FILE_WRITE_END on a session that has no pending upload: HandleFileWriteEnd
\* logs an error and returns before it builds a response.
FileWriteEndIdle(c) ==
    /\ pc[c] = "idle"
    /\ ~pending[c].active
    /\ reply' = Received(reply, c)
    /\ UNCHANGED ClientVars
    /\ UNCHANGED <<dirs, files, path_to_id, backups, disk, subs, streams, pc,
                   cur, pending, delivered, committedT, judgedFree, memfault,
                   asked>>

\* ------------------------------------------------ session: NotifyFileChanges
\* GetDirectoryFiles under the Storage lock ...
NotifyRead(c) ==
    /\ pc[c] \in {"ask_notify", "end_notify"}
    /\ cur' = [cur EXCEPT ![c].listing = GetDirectoryFiles(files, cur[c].dir)]
    /\ pc' = [pc EXCEPT ![c] = IF pc[c] = "ask_notify" THEN "ask_send"
                               ELSE "end_send"]
    /\ UNCHANGED <<dirs, files, path_to_id, backups, disk, subs, streams,
                   pending, delivered, committedT, judgedFree, memfault,
                   asked, reply,
                   ClientVars>>

\* ... then NotifySubscribers: the listing is written to every subscriber of
\* the directory that has a stream, the committer excepted.  After a
\* FILE_WRITE_END the pending upload is dropped last.
NotifyTargets(c) == (subs[cur[c].dir] \ {c}) \intersect streams

NotifySend(c) ==
    /\ pc[c] \in {"ask_send", "end_send"}
    /\ delivered' = [s \in Clients |->
                        IF s \in NotifyTargets(c)
                        THEN Append(delivered[s], cur[c].listing)
                        ELSE delivered[s]]
    /\ pending' = IF pc[c] = "end_send"
                  THEN [pending EXCEPT ![c] = NoPending] ELSE pending
    /\ pc' = [pc EXCEPT ![c] = "idle"]
    /\ cur' = [cur EXCEPT ![c] = NoCur]
    /\ UNCHANGED <<dirs, files, path_to_id, backups, disk, subs, streams,
                   committedT, judgedFree, memfault, asked, reply,
                   ClientVars>>

\* NotifySubscribers at the grain of its stream->Write calls.  The session
\* holds SubscriptionManager::mutex_ shared and is inside Write on the stream
\* of a subscriber; nothing else guards the subscriber's stream.
NotifyWriteBegin(c) ==
    /\ pc[c] \in {"ask_send", "end_send"}
    /\ NotifyTargets(c) # {}
    /\ pc' = [pc EXCEPT ![c] = IF pc[c] = "ask_send" THEN "ask_write"
                               ELSE "end_write"]
    /\ UNCHANGED <<dirs, files, path_to_id, backups, disk, subs, streams, cur,
                   pending, delivered, committedT, judgedFree, memfault, asked,
                   reply,
                   ClientVars>>

\* Write returns, the shared lock is released, NotifyFileChanges returns.
NotifyWriteEnd(c) ==
    /\ pc[c] \in {"ask_write", "end_write"}
    /\ delivered' = [s \in Clients |->
                        IF s \in NotifyTargets(c)
                        THEN Append(delivered[s], cur[c].listing)
                        ELSE delivered[s]]
    /\ pending' = IF pc[c] = "end_write"
                  THEN [pending EXCEPT ![c] = NoPending] ELSE pending
    /\ pc' = [pc EXCEPT ![c] = "idle"]
    /\ cur' = [cur EXCEPT ![c] = NoCur]
    /\ UNCHANGED <<dirs, files, path_to_id, backups, disk, subs, streams,
                   committedT, judgedFree, memfault, asked, reply,
                   ClientVars>>

\* The sessions that are inside NotifySubscribers and hold its shared lock.
Notifiers == {c \in Clients : pc[c] \in {"ask_write", "end_write"}}

\* ------------------------------------------------- session: upload timeout
\* A message arrives after the pending upload's inactivity limit: the upload
\* is rolled back and dropped, ERROR{TIMEOUT} is sent without a request id, and
\* the message is skipped, whether it carries a request id or, as FILE_WRITE,
\* none.
Timeout(c) ==
    /\ pc[c] = "idle"
    /\ pending[c].active
    /\ files' = RollbackUpload(c, pending[c].request, files, backups)
    /\ backups' = [backups EXCEPT ![c] = EmptyMap]
    /\ pending' = [pending EXCEPT ![c] = NoPending]
    /\ UNCHANGED <<dirs, path_to_id, disk, subs, streams, pc, cur, delivered,
                   committedT, judgedFree, memfault, asked>>
    /\ UNCHANGED ClientVars
    /\ \E has_request_id \in BOOLEAN :
           reply' = IF has_request_id THEN Received(reply, c) ELSE reply

\* ------------------------------------------------ session: stream termination
\* stream->Read fails: a pending upload is rolled back ...
Disconnect(c) ==
    /\ pc[c] = "idle"
    /\ IF pending[c].active
       THEN /\ files' = RollbackUpload(c, pending[c].request, files, backups)
            /\ backups' = [backups EXCEPT ![c] = EmptyMap]
       ELSE UNCHANGED <<files, backups>>
    /\ pc' = [pc EXCEPT ![c] = "term_remove"]
    /\ UNCHANGED <<dirs, path_to_id, disk, subs, streams, cur, pending,
                   delivered, committedT, judgedFree, memfault, asked, reply,
                   ClientVars>>

\* ... SubscriptionManager::RemoveClient ...
TermRemove(c) ==
    /\ pc[c] = "term_remove"
    /\ subs' = [d \in DOMAIN subs |-> subs[d] \ {c}]
    /\ streams' = streams \ {c}
    /\ pc' = [pc EXCEPT ![c] = "term_release"]
    /\ UNCHANGED <<dirs, files, path_to_id, backups, disk, cur, pending,
                   delivered, committedT, judgedFree, memfault, asked, reply,
                   ClientVars>>

\* ... Storage::ReleaseLocks, and Stream returns.
TermRelease(c) ==
    /\ pc[c] = "term_release"
    /\ files' = ReleaseLocks(c, files)
    /\ backups' = [backups EXCEPT ![c] = EmptyMap]
    /\ pending' = [pending EXCEPT ![c] = NoPending]
    /\ pc' = [pc EXCEPT ![c] = "closed"]
    /\ UNCHANGED <<dirs, path_to_id, disk, subs, streams, cur, delivered,
                   committedT, judgedFree, memfault, asked, reply,
                   ClientVars>>

\* -------------------------------------- session: DIRECTORY_(UN)SUBSCRIBE
Subscribe(c, d) ==
    /\ pc[c] = "idle"
    /\ d \in dirs
    /\ subs' = [subs EXCEPT ![d] = @ \union {c}]
    /\ streams' = streams \union {c}
    /\ UNCHANGED <<dirs, files, path_to_id, backups, disk, pc, cur, pending,
                   delivered, committedT, judgedFree, memfault, asked>>
    /\ reply' = Echoed(Received(reply, c), c)
    /\ UNCHANGED ClientVars

Unsubscribe(c, d) ==
    /\ pc[c] = "idle"
    /\ c \in subs[d]
    /\ subs' = [subs EXCEPT ![d] = @ \ {c}]
    /\ UNCHANGED <<dirs, files, path_to_id, backups, disk, streams, pc, cur,
                   pending, delivered, committedT, judgedFree, memfault,
                   asked>>
    /\ reply' = Echoed(Received(reply, c), c)
    /\ UNCHANGED ClientVars

\* ----------------------------------------------- session: REQUEST_VERSION
\* HandleRequestVersion reads the metadata asked for and answers CHECK_VERSION
\* with the request id; nothing is stored.  The step shows only when an answer
\* was still owed on the stream.
RequestVersion(c) ==
    /\ pc[c] = "idle"
    /\ reply' = Echoed(Received(reply, c), c)
    /\ UNCHANGED ClientVars
    /\ UNCHANGED <<dirs, files, path_to_id, backups, disk, subs, streams, pc,
                   cur, pending, delivered, committedT, judgedFree, memfault,
                   asked>>

\* HandleRequestVersion at the grain of its stream->Write: the session is
\* inside Write of the CHECK_VERSION response on its own stream ...
RequestVersionWrite(c) ==
    /\ pc[c] = "idle"
    /\ pc' = [pc EXCEPT ![c] = "rv_write"]
    /\ reply' = Received(reply, c)
    /\ UNCHANGED ClientVars
    /\ UNCHANGED <<dirs, files, path_to_id, backups, disk, subs, streams, cur,
                   pending, delivered, committedT, judgedFree, memfault,
                   asked>>

\* ... and Write returns.
RequestVersionWritten(c) ==
    /\ pc[c] = "rv_write"
    /\ pc' = [pc EXCEPT ![c] = "idle"]
    /\ reply' = Echoed(reply, c)
    /\ UNCHANGED ClientVars
    /\ UNCHANGED <<dirs, files, path_to_id, backups, disk, subs, streams, cur,
                   pending, delivered, committedT, judgedFree, memfault,
                   asked>>

\* The threads that are inside stream->Write on the stream of client s: its
\* own session writing a response, other sessions writing a notification.
WritersOf(s) ==
    {c \in Notifiers : s \in NotifyTargets(c)}
        \union (IF pc[s] = "rv_write" THEN {s} ELSE {})

\* ------------------------------------------- session: REQUEST_FILE_CONTENT
\* CheckFilesForRead says FREE (anything else is answered with a DENY and
\* changes nothing) ...
RecvRead(c, d, id) ==
    /\ pc[c] = "idle"
    /\ ReadStatus(files, d, id) = FREE
    /\ pc' = [pc EXCEPT ![c] = "rd_lock"]
    /\ cur' = [cur EXCEPT ![c] = [NoCur EXCEPT !.dir = d, !.results =
                  <<[file_id |-> id, status |-> FREE, directory_id |-> d]>>]]
    /\ UNCHANGED <<dirs, files, path_to_id, backups, disk, subs, streams,
                   pending, delivered, committedT, judgedFree, memfault,
                   asked>>
    /\ reply' = Received(reply, c)
    /\ UNCHANGED ClientVars

\* ... LockFilesForRead and FILE_CONTENT_REQUEST_ALLOW ...
RdLock(c) ==
    /\ pc[c] = "rd_lock"
    /\ files' = [files EXCEPT ![cur[c].results[1].file_id].is_being_read = TRUE]
    /\ pc' = [pc EXCEPT ![c] = "rd_send"]
    /\ UNCHANGED <<dirs, path_to_id, backups, disk, subs, streams, cur,
                   pending, delivered, committedT, judgedFree, memfault,
                   asked>>
    /\ reply' = Echoed(reply, c)
    /\ UNCHANGED ClientVars

\* ... GetFile and the FILE_WRITE chunks of its content ...
RdSend(c) ==
    /\ pc[c] = "rd_send"
    /\ cur' = [cur EXCEPT ![c].served =
                  GetFileContent(files, disk, cur[c].results[1].file_id)]
    /\ pc' = [pc EXCEPT ![c] = "rd_unlock"]
    /\ UNCHANGED <<dirs, files, path_to_id, backups, disk, subs, streams,
                   pending, delivered, committedT, judgedFree, memfault,
                   asked, reply,
                   ClientVars>>

\* ... FILE_WRITE_END and UnlockFilesAfterRead.
RdUnlock(c) ==
    /\ pc[c] = "rd_unlock"
    /\ files' = [files EXCEPT ![cur[c].results[1].file_id].is_being_read = FALSE]
    /\ pc' = [pc EXCEPT ![c] = "idle"]
    /\ cur' = [cur EXCEPT ![c] = NoCur]
    /\ UNCHANGED <<dirs, path_to_id, backups, disk, subs, streams, pending,
                   delivered, committedT, judgedFree, memfault, asked, reply,
                   ClientVars>>

\* ------------------------------------------------------------ the inputs
FileInfo(id, d, p, del, cc, t) ==
    [id |-> id, directory_id |-> d, current_path |-> p, deleted |-> del,
     content_changed |-> cc, first_try_time |-> t]

Chunk(id, p, off, data) ==
    [id |-> id, current_path |-> p, offset |-> off, data |-> data]

\* The chunk that the client's UploadFileContents sends next for the first
\* file of its request: the file's id and path, the offset reached so far.
Uploaded(p, key) ==
    IF key \in DOMAIN p.file_contents THEN p.file_contents[key] ELSE <<>>

NextChunk(c, data) ==
    LET fi == pending[c].request[1]
    IN  Chunk(fi.id, fi.current_path,
              Len(Uploaded(pending[c], fi.current_path)), data)

Actors == {"c1", "c2"}

\* ----------------------------------------------------------------- Spec
\* Two sessions that write one path of one directory: creations, updates with
\* and without content, deletions, timeouts and disconnections.  A request
\* names its file by path or by an id the server has issued.  A session sends
\* no new ASK_VERSION_INCREASE while its upload is pending.
AskRequests ==
    {<<FileInfo(id, "d1", "p1", del, cc, t)>> :
        id \in {EmptyId} \union DOMAIN files, del \in BOOLEAN,
        cc \in BOOLEAN, t \in Times}

ChunkData == {<<1>>}

Next ==
    \E c \in Actors :
        \/ DirectoryCreate(c)
        \/ \E req \in AskRequests : ~pending[c].active /\ RecvAsk(c, req)
        \/ AskDeny(c)
        \/ AskAllow(c)
        \/ AskLock(c)
        \/ AskApply(c)
        \/ \E data \in ChunkData : FileWrite(c, NextChunk(c, data))
        \/ FileWriteEnd(c)
        \/ NotifyRead(c)
        \/ NotifySend(c)
        \/ Timeout(c)
        \/ Disconnect(c)
        \/ TermRemove(c)
        \/ TermRelease(c)

Spec == Init /\ [][Next]_vars

\* ----------------------------------------------------------- SpecRename
\* Two sessions that commit metadata only, over two paths: creations, renames,
\* soft-deletes and undeletes.
RenameRequests ==
    {<<FileInfo(id, "d1", p, del, FALSE, t)>> :
        id \in {EmptyId} \union DOMAIN files, p \in Paths, del \in BOOLEAN,
        t \in Times}

NextRename ==
    \E c \in Actors :
        \/ DirectoryCreate(c)
        \/ \E req \in RenameRequests : RecvAsk(c, req)
        \/ AskDeny(c)
        \/ AskLock(c)
        \/ AskApply(c)
        \/ NotifyRead(c)
        \/ NotifySend(c)

SpecRename == Init /\ [][NextRename]_vars

\* ----------------------------------------------------------- SpecFanout
\* Two sessions that commit metadata to one path while the third is subscribed
\* to the directory and receives the notifications.
FanoutRequests ==
    {<<FileInfo(id, "d1", "p1", FALSE, FALSE, t)>> :
        id \in {EmptyId} \union DOMAIN files, t \in Times}

Listener == "c3"

NextFanout ==
    \/ \E c \in Actors :
        \/ DirectoryCreate(c)
        \/ \E req \in FanoutRequests :
               Listener \in subs["d1"] /\ RecvAsk(c, req)
        \/ AskDeny(c)
        \/ AskLock(c)
        \/ AskApply(c)
        \/ NotifyRead(c)
        \/ NotifySend(c)
    \/ Subscribe(Listener, "d1")
    \/ Unsubscribe(Listener, "d1")
    \/ Disconnect(Listener)
    \/ TermRemove(Listener)
    \/ TermRelease(Listener)

SpecFanout == Init /\ [][NextFanout]_vars

\* ------------------------------------------------------------- SpecRead
\* Two sessions that commit to one path, with and without content, and
\* download the files of the directory.
ReadRequests ==
    {<<FileInfo(id, "d1", "p1", FALSE, cc, t)>> :
        id \in {EmptyId} \union DOMAIN files, cc \in BOOLEAN, t \in Times}

NextRead ==
    \E c \in Actors :
        \/ DirectoryCreate(c)
        \/ \E req \in ReadRequests : ~pending[c].active /\ RecvAsk(c, req)
        \/ AskDeny(c)
        \/ AskAllow(c)
        \/ AskLock(c)
        \/ AskApply(c)
        \/ \E data \in ChunkData : FileWrite(c, NextChunk(c, data))
        \/ FileWriteEnd(c)
        \/ NotifyRead(c)
        \/ NotifySend(c)
        \/ Timeout(c)
        \/ \E id \in DOMAIN files : RecvRead(c, "d1", id)
        \/ RdLock(c)
        \/ RdSend(c)
        \/ RdUnlock(c)

SpecRead == Init /\ [][NextRead]_vars

\* ------------------------------------------------------------ SpecStored
\* The server some time into its life: session c1 has created f1 at p1 of d1
\* with a metadata-only request of first_try_time 1.  The counters of the run
\* start here.
StoredFile ==
    [directory_id |-> "d1", version |-> 1, content_changed_version |-> 0,
     current_path |-> "p1", deleted |-> FALSE, content |-> <<>>,
     status |-> FREE, locked_by_client |-> NoClient, is_being_read |-> FALSE,
     last_try |-> [time |-> 1, connection_id |-> "c1"]]

InitStored ==
    /\ dirs = {"d1"}
    /\ files = [f \in {"f1"} |-> StoredFile]
    /\ path_to_id = [d \in {"d1"} |-> [p \in {"p1"} |-> "f1"]]
    /\ backups = [c \in Clients |-> EmptyMap]
    /\ disk = EmptyMap
    /\ subs = [d \in AllDirIds |-> {}]
    /\ streams = {}
    /\ pc = [c \in Clients |-> "idle"]
    /\ cur = [c \in Clients |-> NoCur]
    /\ pending = [c \in Clients |-> NoPending]
    /\ delivered = [c \in Clients |-> <<>>]
    /\ committedT = [f \in AllFileIds |-> IF f = "f1" THEN 1 ELSE 0]
    /\ judgedFree = [f \in AllFileIds |-> [time |-> 0, connection_id |-> NoClient]]
    /\ memfault = FALSE
    /\ asked = 0
    /\ reply = [c \in Clients |-> QUIET]
    /\ ClientInit

\* Two sessions that update the stored file by id, with and without content,
\* with the timestamp it was created with or one of the later ones.
StoredTimes == 1..(MaxTime + 1)

StoredRequests ==
    {<<FileInfo("f1", "d1", "p1", FALSE, cc, t)>> :
        cc \in BOOLEAN, t \in StoredTimes}

NextStored ==
    \E c \in Actors :
        \/ \E req \in StoredRequests : ~pending[c].active /\ RecvAsk(c, req)
        \/ AskDeny(c)
        \/ AskAllow(c)
        \/ AskLock(c)
        \/ AskApply(c)
        \/ \E data \in ChunkData : FileWrite(c, NextChunk(c, data))
        \/ FileWriteEnd(c)
        \/ NotifyRead(c)
        \/ NotifySend(c)
        \/ Timeout(c)
        \/ Disconnect(c)
        \/ TermRemove(c)
        \/ TermRelease(c)

SpecStored == InitStored /\ [][NextStored]_vars

\* ------------------------------------------------------------- SpecMoved
\* Two sessions that rename, soft-delete, undelete and upload to the stored
\* file by id, over two paths; an upload may time out.
MovedRequests ==
    {<<FileInfo("f1", "d1", p, del, cc, t)>> :
        p \in Paths, del \in BOOLEAN, cc \in BOOLEAN, t \in Times}

NextMoved ==
    \E c \in Actors :
        \/ \E req \in MovedRequests : ~pending[c].active /\ RecvAsk(c, req)
        \/ AskDeny(c)
        \/ AskAllow(c)
        \/ AskLock(c)
        \/ AskApply(c)
        \/ FileWriteEnd(c)
        \/ NotifyRead(c)
        \/ NotifySend(c)
        \/ Timeout(c)

SpecMoved == InitStored /\ [][NextMoved]_vars

\* ------------------------------------------------------------- SpecReply
\* Two sessions that send every kind of request that carries a request id, in
\* every session state: with and without a pending upload, before and after
\* a timeout.
ReplyRequests ==
    {<<FileInfo("f1", "d1", "p1", FALSE, cc, 1)>> : cc \in BOOLEAN}

NextReply ==
    \E c \in Actors :
        \/ \E req \in ReplyRequests : ~pending[c].active /\ RecvAsk(c, req)
        \/ AskDeny(c)
        \/ AskAllow(c)
        \/ AskLock(c)
        \/ AskApply(c)
        \/ \E data \in ChunkData : FileWrite(c, NextChunk(c, data))
        \/ FileWriteEnd(c)
        \/ FileWriteEndIdle(c)
        \/ NotifyRead(c)
        \/ NotifySend(c)
        \/ Timeout(c)
        \/ Subscribe(c, "d1")
        \/ Unsubscribe(c, "d1")
        \/ RequestVersion(c)
        \/ RecvRead(c, "d1", "f1")
        \/ RdLock(c)
        \/ RdSend(c)
        \/ RdUnlock(c)

SpecReply == InitStored /\ [][NextReply]_vars

\* ------------------------------------------------------------- SpecWrite
\* SpecFanout at the grain of the writes: two sessions commit metadata and
\* notify the subscribed third, which asks for versions meanwhile.  Subscribe
\* takes SubscriptionManager::mutex_ exclusively, so it waits for notifiers.
NextWrite ==
    \/ \E c \in Actors :
        \/ DirectoryCreate(c)
        \/ \E req \in FanoutRequests :
               Listener \in subs["d1"] /\ RecvAsk(c, req)
        \/ AskDeny(c)
        \/ AskLock(c)
        \/ AskApply(c)
        \/ NotifyRead(c)
        \/ NotifyWriteBegin(c)
        \/ NotifyWriteEnd(c)
    \/ Notifiers = {} /\ Subscribe(Listener, "d1")
    \/ RequestVersionWrite(Listener)
    \/ RequestVersionWritten(Listener)

SpecWrite == Init /\ [][NextWrite]_vars

\* ------------------------------------------------- what the claims speak of
\* The record an entry of a request is committed to: the one it resolves to,
\* or the one that is created for it.
CommitTarget(fs, idx, fi) ==
    LET fid == FindForCommit(fs, idx, fi)
    IN  IF fid # EmptyId THEN fid ELSE GenerateUuid(fs)

\* Session c takes its ApplyVersionIncrease step, without or with content.
MetadataCommitStep(c) == pc[c] = "ask_apply" /\ pc'[c] = "ask_notify"

UploadCommitStep(c) ==
    pc[c] = "idle" /\ pending[c].active /\ pc'[c] = "end_notify"

CommitStep(c) == MetadataCommitStep(c) \/ UploadCommitStep(c)

CommitRequest(c) ==
    IF pc[c] = "ask_apply" THEN cur[c].request ELSE pending[c].request

\* Session c was answered VERSION_INCREASE_ALLOW for a request that names the
\* existing file f by id and has neither committed nor been rolled back.
Uploading(c, f) ==
    /\ pc[c] = "idle"
    /\ pending[c].active
    /\ f \in DOMAIN files
    /\ pending[c].request[1].id = f

\* C1: single writer.  Two sessions are never both inside an allowed upload
\* of the same existing file: the second ASK_VERSION_INCREASE is denied until
\* the first upload has committed or been rolled back.
C1_SingleWriter ==
    \A f \in AllFileIds : ~(Uploading("c1", f) /\ Uploading("c2", f))

\* C2: version monotonicity.  No step of the server, a rollback, timeout or
\* disconnection included, lowers the version stored for a file.
C2_VersionMonotonic ==
    [][\A f \in DOMAIN files : files'[f].version >= files[f].version]_vars

\* C3: rollback completeness.  When a stream terminates with an upload
\* pending, the rollback that handles the termination leaves every file named
\* in the upload with the fields of the snapshot taken when it was locked and
\* under no write lock, save the session's own, which the termination
\* releases before it ends.
C3_RollbackComplete ==
    [][\A c \in Clients :
         (pc[c] = "idle" /\ pc'[c] = "term_remove" /\ pending[c].active)
         => \A f \in DOMAIN files :
                (pending[c].request[1].id = f /\ f \in DOMAIN backups[c])
                => /\ files'[f].version = backups[c][f].version
                   /\ files'[f].current_path = backups[c][f].current_path
                   /\ files'[f].deleted = backups[c][f].deleted
                   /\ files'[f].content_changed_version
                          = backups[c][f].content_changed_version
                   /\ files'[f].last_try = backups[c][f].last_try
                   /\ files'[f].status = BLOCKED
                          => files'[f].locked_by_client = c]_vars

\* C4: LAST_TRY priority.  Once a request with first_try_time T2 has been
\* committed to a file, every ASK_VERSION_INCREASE for that file with an
\* earlier first_try_time is judged DENIED.
C4_LastTryPriority ==
    [][\A c \in Clients :
         (pc[c] = "idle" /\ pc'[c] = "ask_checked")
         => \A i \in 1..Len(cur'[c].results) :
                LET r == cur'[c].results[i]
                IN  (r.file_id # EmptyId
                     /\ cur'[c].request[i].first_try_time < committedT[r.file_id])
                    => r.status = DENIED]_vars

\* C5: round trip.  After FILE_WRITE_END commits an upload of a file's
\* content, REQUEST_FILE_CONTENT serves exactly the bytes that were uploaded;
\* an upload of no bytes leaves an empty file.
C5_RoundTrip ==
    [][\A c \in Clients :
         UploadCommitStep(c)
         => LET fi == pending[c].request[1]
                t == CommitTarget(files, path_to_id, fi)
            IN  (fi.content_changed /\ ~fi.deleted)
                => GetFileContent(files', disk', t)
                       = Uploaded(pending[c], fi.current_path)]_vars

\* C8: every commit raises the version of the existing file it is applied to
\* by exactly 1, a file created by a commit starts at version 1, and after an
\* ASK/WRITE/END cycle the file serves the content of that cycle's writes.
C8_CommitRaisesVersionByOne ==
    [][\A c \in Clients :
         CommitStep(c)
         => LET fi == CommitRequest(c)[1]
                t == CommitTarget(files, path_to_id, fi)
            IN  /\ t \in DOMAIN files => files'[t].version = files[t].version + 1
                /\ t \notin DOMAIN files => files'[t].version = 1
                /\ (UploadCommitStep(c) /\ fi.content_changed /\ ~fi.deleted
                    /\ fi.current_path \in DOMAIN pending[c].file_contents)
                   => GetFileContent(files', disk', t)
                          = pending[c].file_contents[fi.current_path]]_vars

\* C8 witness: a file at version 2 that holds the two bytes of a second
\* upload cycle.
C8_Witness ==
    \E f \in DOMAIN files : files[f].version = 2 /\ files[f].content = <<1, 1>>

\* C9: content_changed_version never exceeds version; a commit sets it to the
\* new version exactly when the request's content_changed flag is true and
\* leaves it alone otherwise; a created file starts at 1 with content and at
\* 0 without.
C9_ContentChangedVersion ==
    /\ [](\A f \in DOMAIN files :
             files[f].content_changed_version <= files[f].version)
    /\ [][\A c \in Clients :
            CommitStep(c)
            => LET fi == CommitRequest(c)[1]
                   t == CommitTarget(files, path_to_id, fi)
               IN  /\ (t \in DOMAIN files /\ fi.content_changed)
                      => /\ files'[t].content_changed_version = files'[t].version
                         /\ files'[t].content_changed_version
                                # files[t].content_changed_version
                   /\ (t \in DOMAIN files /\ ~fi.content_changed)
                      => files'[t].content_changed_version
                             = files[t].content_changed_version
                   /\ t \notin DOMAIN files
                      => files'[t].content_changed_version
                             = IF fi.content_changed THEN 1 ELSE 0]_vars

\* C9 witness: a file whose content came with version 1 and that a later
\* metadata-only commit (a soft-delete) took to version 2.
C9_Witness ==
    \E f \in DOMAIN files :
        /\ files[f].version = 2
        /\ files[f].content_changed_version = 1
        /\ files[f].deleted

\* C6: fan-out in commit order.  The listings a subscriber receives never go
\* back: a listing delivered later shows no file at an older version than a
\* listing delivered before it.
C6_FanoutInCommitOrder ==
    \A s \in Clients :
        \A i, j \in 1..Len(delivered[s]) :
            i < j => \A f \in DOMAIN delivered[s][i] \intersect DOMAIN delivered[s][j] :
                         delivered[s][j][f].version >= delivered[s][i][f].version

\* C7: path-index consistency.  Every file that is not deleted is found under
\* its current_path in the path index of its directory.
C7_PathIndexConsistent ==
    \A f \in DOMAIN files :
        ~files[f].deleted
        => FindByPath(path_to_id, files[f].directory_id, files[f].current_path) = f

\* Session c's ASK_VERSION_INCREASE is being judged, its i-th entry resolves to
\* the existing file f, and the latest FREE judgement on f was given to c for
\* the same first_try_time.
RepeatedAsk(c, i, f) ==
    /\ pc[c] = "idle"
    /\ pc'[c] = "ask_checked"
    /\ i \in 1..Len(cur'[c].results)
    /\ cur'[c].results[i].file_id = f
    /\ judgedFree[f] = [time |-> cur'[c].request[i].first_try_time,
                        connection_id |-> c]

C11_LastTryMonotonic ==
    [][\A f \in DOMAIN files :
         files'[f].last_try.time >= files[f].last_try.time]_vars

\* Session c's stream has terminated and Stream has returned.
Closed(c) == pc[c] = "closed"

\* What the termination handling of session c leaves behind: no subscription,
\* no send handle, no write lock, no backup, no pending upload.
CleanedUp(c, fs, bk, sb, st, pd) ==
    /\ \A d \in DOMAIN sb : c \notin sb[d]
    /\ c \notin st
    /\ \A f \in DOMAIN fs : fs[f].locked_by_client # c
    /\ bk[c] = EmptyMap
    /\ ~pd[c].active

\* C12: termination cleanup.  Once Stream has handled the termination of a
\* session, the session is in no subscriber set and has no send handle, no
\* file is write-locked by it, it has no backup and no pending upload.
C12_TerminationCleanup ==
    \A c \in Clients :
        Closed(c) => CleanedUp(c, files, backups, subs, streams, pending)

\* Session c's pending upload is timed out on this step: a message arrives
\* after the inactivity limit, while Stream waits for the next message.
TimeoutStep(c) ==
    /\ pc[c] = "idle"
    /\ pc'[c] = "idle"
    /\ pending[c].active
    /\ ~pending'[c].active
    /\ files' = RollbackUpload(c, pending[c].request, files, backups)

\* The existing files that the request of session c's pending upload names.
NamedFiles(c) ==
    {FindForCheck(files, path_to_id, pending[c].request[i]) :
        i \in 1..Len(pending[c].request)} \ {EmptyId}

\* C13: upload timeout.  The timeout of a pending upload discards it, leaves
\* none of the files the request names write-locked by the client and no
\* backup of the client, and changes neither the version nor the content of
\* those files.
C13_TimeoutRollsBack ==
    [][\A c \in Clients :
         TimeoutStep(c)
         => /\ backups'[c] = EmptyMap
            /\ \A f \in NamedFiles(c) :
                 /\ files'[f].locked_by_client # c
                 /\ files'[f].version = files[f].version
                 /\ GetFileContent(files', disk', f)
                        = GetFileContent(files, disk, f)]_vars

\* At least one commit with content has been applied to the record: only such
\* a commit gives content_changed_version a value above 0.
HasContentCommit(f) == f.content_changed_version > 0

\* C14: blob existence.  A file's blob exists on disk exactly when the file is
\* not deleted and at least one commit with content has been applied to it.
C14_BlobIffLiveContent ==
    \A f \in DOMAIN files :
        (f \in DOMAIN disk) <=> (~files[f].deleted /\ HasContentCommit(files[f]))

\* The paths under which the path index of directory d finds the file f.
IndexedPaths(idx, d, f) == {p \in DOMAIN idx[d] : idx[d][p] = f}

\* C15: soft delete.  After the commit of a request entry with deleted=true
\* the record it was applied to is kept, is marked deleted, is absent from
\* GetDirectoryFiles and from the path index, and every other file of the
\* directory that is not deleted is listed as before.
C15_SoftDeleteHidesFile ==
    [][\A c \in Clients :
         CommitStep(c)
         => LET fi == CommitRequest(c)[1]
                d == fi.directory_id
                F == CommitTarget(files, path_to_id, fi)
                listing == GetDirectoryFiles(files', d)
            IN  fi.deleted
                => /\ F \in DOMAIN files'
                   /\ files'[F].deleted
                   /\ F \notin DOMAIN listing
                   /\ IndexedPaths(path_to_id', d, F) = {}
                   /\ \A g \in DOMAIN files \ {F} :
                        (files[g].directory_id = d /\ ~files[g].deleted)
                        => (g \in DOMAIN listing
                            /\ listing[g] = Metadata(g, files[g]))]_vars

\* C16: one response per request.  Whenever a session waits for its next
\* message, the request with a request id that it read last has been answered
\* by exactly one message that echoes the id.
C16_EveryRequestAnswered ==
    \A c \in Clients : pc[c] = "idle" => reply[c] = QUIET

\* C17: serialized stream writes.  At no time are two threads inside
\* stream->Write on the stream of one client.
C17_OneWriterPerStream ==
    \A s \in Clients : Cardinality(WritersOf(s)) <= 1

\* ------------------------------------------ GRPCClient: request / response
\* A call is outstanding from the write of its request until it returns.
Outstanding(r) == call[r] \in {"sent", "registered", "in_wait"}

\* The request ids of the messages of a sequence.
RequestIds(q) == {q[i].request_id : i \in 1..Len(q)} \ {NoId}

\* The messages without a request id in a sequence.
Pushed(q) == Cardinality({i \in 1..Len(q) : q[i].request_id = NoId})

\* SendMessageWithResponse, first half: the request id is generated and set,
\* and SendMessage writes the message to the stream under stream_mutex_.
SendMessage(r) ==
    /\ call[r] = "new"
    /\ call' = [call EXCEPT ![r] = "sent"]
    /\ UNCHANGED <<waiters_, waiter, inbound, answered, callback_queue_>>
    /\ UNCHANGED <<ServerVars, TransferVars, LockVars, EngineVars, SyncVars, StoreVars>>

\* SendMessageWithResponse, second half: WaitForMessage makes the waiter and
\* pushes it onto waiters_ under waiters_mutex_.
WaitForMessage(r) ==
    /\ call[r] = "sent"
    /\ waiter' = [waiter EXCEPT ![r] = NewWaiter]
    /\ waiters_' = waiters_ \union {r}
    /\ call' = [call EXCEPT ![r] = "registered"]
    /\ UNCHANGED <<inbound, answered, callback_queue_>>
    /\ UNCHANGED <<ServerVars, TransferVars, LockVars, EngineVars, SyncVars, StoreVars>>

\* WaitForMessage: waiter->mutex is taken and `while (!waiter->done)` is
\* evaluated: the result is returned, or the thread enters cv.wait_until.
WaitLoop(r) ==
    /\ call[r] = "registered"
    /\ call' = [call EXCEPT ![r] = IF waiter[r].done THEN "ok" ELSE "in_wait"]
    /\ UNCHANGED <<waiters_, waiter, inbound, answered, callback_queue_>>
    /\ UNCHANGED <<ServerVars, TransferVars, LockVars, EngineVars, SyncVars, StoreVars>>

\* cv.wait_until returns no_timeout after notify_one: the loop ends and the
\* result is returned.
WaitNotified(r) ==
    /\ call[r] = "in_wait"
    /\ waiter[r].done
    /\ call' = [call EXCEPT ![r] = "ok"]
    /\ UNCHANGED <<waiters_, waiter, inbound, answered, callback_queue_>>
    /\ UNCHANGED <<ServerVars, TransferVars, LockVars, EngineVars, SyncVars, StoreVars>>

\* cv.wait_until returns timeout: the waiter is erased from waiters_ and the
\* call returns DeadlineExceeded.  `done` is not looked at on this path.
WaitDeadline(r) ==
    /\ call[r] = "in_wait"
    /\ waiters_' = waiters_ \ {r}
    /\ call' = [call EXCEPT ![r] = "deadline"]
    /\ UNCHANGED <<waiter, inbound, answered, callback_queue_>>
    /\ UNCHANGED <<ServerVars, TransferVars, LockVars, EngineVars, SyncVars, StoreVars>>

\* The server writes its response to a request it has read; the response
\* echoes the request id.
ServerRespond(r) ==
    /\ call[r] # "new"
    /\ r \notin answered
    /\ answered' = answered \union {r}
    /\ inbound' = Append(inbound, ServerMessage(r))
    /\ UNCHANGED <<call, waiters_, waiter, callback_queue_>>
    /\ UNCHANGED <<ServerVars, TransferVars, LockVars, EngineVars, SyncVars, StoreVars>>

\* The server writes a message without a request id (CHECK_VERSION,
\* FILE_WRITE, FILE_WRITE_END).
ServerPush ==
    /\ Pushed(inbound) + Pushed(callback_queue_) < MaxPush
    /\ inbound' = Append(inbound, ServerMessage(NoId))
    /\ UNCHANGED <<call, waiters_, waiter, answered, callback_queue_>>
    /\ UNCHANGED <<ServerVars, TransferVars, LockVars, EngineVars, SyncVars, StoreVars>>

\* ReceiveLoop reads one message and ProcessMessage dispatches it: the first
\* waiter whose predicate accepts it gets it and leaves waiters_; with no such
\* waiter the message is pushed onto callback_queue_.
ProcessMessage ==
    /\ inbound # <<>>
    /\ LET message == Head(inbound)
           id == message.request_id
       IN  /\ inbound' = Tail(inbound)
           /\ IF id # NoId /\ id \in waiters_
              THEN /\ waiter' = [waiter EXCEPT
                                    ![id] = [done |-> TRUE, result |-> id]]
                   /\ waiters_' = waiters_ \ {id}
                   /\ UNCHANGED callback_queue_
              ELSE /\ callback_queue_' = Append(callback_queue_, message)
                   /\ UNCHANGED <<waiters_, waiter>>
    /\ UNCHANGED <<call, answered>>
    /\ UNCHANGED <<ServerVars, TransferVars, LockVars, EngineVars, SyncVars, StoreVars>>

\* CallbackWorkerLoop pops the front of callback_queue_ and hands it to
\* message_callback_ (Synchronizer::OnServerMessage).
CallbackWorkerLoop ==
    /\ callback_queue_ # <<>>
    /\ callback_queue_' = Tail(callback_queue_)
    /\ UNCHANGED <<call, waiters_, waiter, inbound, answered>>
    /\ UNCHANGED <<ServerVars, TransferVars, LockVars, EngineVars, SyncVars, StoreVars>>

NextGrpc ==
    \/ \E r \in Calls :
          \/ SendMessage(r)
          \/ WaitForMessage(r)
          \/ WaitLoop(r)
          \/ WaitNotified(r)
          \/ WaitDeadline(r)
          \/ ServerRespond(r)
    \/ ServerPush
    \/ ProcessMessage
    \/ CallbackWorkerLoop

SpecGrpc == Init /\ [][NextGrpc]_vars

\* The reader has read the response to r.
Arrived(r) == r \in answered /\ r \notin RequestIds(inbound)

\* C18: a response to an outstanding SendMessageWithResponse call is never
\* put on the callback queue, and a call returns DeadlineExceeded only when no
\* response to it has been read, its waiter being off the waiter list then.
C18_ResponseReachesCaller ==
    [][\A r \in Calls :
          /\ (Outstanding(r) /\ r \notin RequestIds(callback_queue_))
                => r \notin RequestIds(callback_queue_')
          /\ (call[r] # "deadline" /\ call'[r] = "deadline")
                => (~Arrived(r) /\ r \notin waiters_')]_vars

\* ------------------------------------- Synchronizer: watcher and own writes
\* A watcher event: the path, and whether the engine's own write raised it
\* (`own` is history, the program does not keep it).
FileEvent(p, own) == [path |-> p, own |-> own]

\* The user writes a file of the watched directory; the watcher raises an
\* event for it.
UserWrite(p) ==
    /\ tree' = tree \union {p}
    /\ events' = events \union {FileEvent(p, FALSE)}
    /\ UNCHANGED <<files_being_written, pending_changes, download_state_,
                   applying, sent_changes>>
    /\ UNCHANGED <<ServerVars, TransferVars, LockVars, EngineVars, GrpcVars, StoreVars>>

\* RequestFileContents after FILE_CONTENT_REQUEST_ALLOW: the download state is
\* made active.
RequestFileContents ==
    /\ ~download_state_.active
    /\ download_state_' = [download_state_ EXCEPT !.active = TRUE]
    /\ UNCHANGED <<tree, events, files_being_written, pending_changes,
                   applying, sent_changes>>
    /\ UNCHANGED <<ServerVars, TransferVars, LockVars, EngineVars, GrpcVars, StoreVars>>

\* Synchronizer::HandleFileWrite: the first chunk of a file opens <path>.synxpo_tmp and
\* inserts the final path into files_being_written; every chunk is written to
\* the temp file.
SyncHandleFileWrite(p) ==
    /\ download_state_.active
    /\ tree' = tree \union {TempPath(p)}
    /\ events' = events \union {FileEvent(TempPath(p), TRUE)}
    /\ IF p \notin download_state_.final_paths
       THEN /\ download_state_' = [download_state_ EXCEPT
                                      !.final_paths = @ \union {p}]
            /\ files_being_written' = files_being_written \union {p}
       ELSE UNCHANGED <<download_state_, files_being_written>>
    /\ UNCHANGED <<pending_changes, applying, sent_changes>>
    /\ UNCHANGED <<ServerVars, TransferVars, LockVars, EngineVars, GrpcVars, StoreVars>>

\* Synchronizer::HandleFileWriteEnd: every temp file is renamed to its final path, the
\* written paths are erased from files_being_written, the state is reset.
SyncHandleFileWriteEnd ==
    /\ download_state_.active
    /\ LET written == download_state_.final_paths
           temps == {TempPath(p) : p \in written}
       IN  /\ tree' = (tree \ temps) \union written
           /\ events' = events \union
                  {FileEvent(p, TRUE) : p \in written \union temps}
           /\ files_being_written' = files_being_written \ written
    /\ download_state_' = NoDownload
    /\ UNCHANGED <<pending_changes, applying, sent_changes>>
    /\ UNCHANGED <<ServerVars, TransferVars, LockVars, EngineVars, GrpcVars, StoreVars>>

\* The paths ApplyRenamesAndDeletes collects for one file of CHECK_VERSION:
\* a deleted file's path if it exists, both paths of a rename whose old path
\* exists.
AffectedFiles(t, deleted, old_path, file_path) ==
    IF deleted
    THEN IF file_path \in t THEN {file_path} ELSE {}
    ELSE IF old_path # file_path /\ old_path \in t
         THEN {old_path, file_path}
         ELSE {}

\* ApplyRenamesAndDeletes, first part: the affected paths are inserted into
\* files_being_written.
ApplyBlock(deleted, old_path, file_path) ==
    /\ applying.at = "idle"
    /\ LET affected == AffectedFiles(tree, deleted, old_path, file_path)
       IN  /\ files_being_written' = files_being_written \union affected
           /\ applying' = [at |-> "blocked", affected_files |-> affected,
                           deleted |-> deleted, old_path |-> old_path,
                           file_path |-> file_path]
    /\ UNCHANGED <<tree, events, pending_changes, download_state_,
                   sent_changes>>
    /\ UNCHANGED <<ServerVars, TransferVars, LockVars, EngineVars, GrpcVars, StoreVars>>

\* ApplyRenamesAndDeletes, second part: the file is removed or renamed.
ApplyPerform ==
    /\ applying.at = "blocked"
    /\ LET touched == AffectedFiles(tree, applying.deleted, applying.old_path,
                                    applying.file_path)
       IN  /\ tree' = IF applying.deleted
                      THEN tree \ touched
                      ELSE IF touched = {} THEN tree
                           ELSE (tree \ {applying.old_path})
                                    \union {applying.file_path}
           /\ events' = events \union {FileEvent(p, TRUE) : p \in touched}
    /\ applying' = [applying EXCEPT !.at = "performed"]
    /\ UNCHANGED <<files_being_written, pending_changes, download_state_,
                   sent_changes>>
    /\ UNCHANGED <<ServerVars, TransferVars, LockVars, EngineVars, GrpcVars, StoreVars>>

\* ApplyRenamesAndDeletes, last part: after sleeping 100 ms the affected
\* paths are erased from files_being_written.
ApplyUnblock ==
    /\ applying.at = "performed"
    /\ files_being_written' = files_being_written \ applying.affected_files
    /\ applying' = NotApplying
    /\ UNCHANGED <<tree, events, pending_changes, download_state_,
                   sent_changes>>
    /\ UNCHANGED <<ServerVars, TransferVars, LockVars, EngineVars, GrpcVars, StoreVars>>

\* DeleteMissingFiles: a local file that the server does not list is removed.
DeleteMissingFiles(p) ==
    /\ p \in tree
    /\ tree' = tree \ {p}
    /\ events' = events \union {FileEvent(p, TRUE)}
    /\ UNCHANGED <<files_being_written, pending_changes, download_state_,
                   applying, sent_changes>>
    /\ UNCHANGED <<ServerVars, TransferVars, LockVars, EngineVars, GrpcVars, StoreVars>>

\* The watcher delivers an event: OnFileEvent drops it if its path is in
\* files_being_written and records it in pending_changes otherwise.
OnFileEvent(event) ==
    /\ event \in events
    /\ events' = events \ {event}
    /\ pending_changes' = IF event.path \in files_being_written
                          THEN pending_changes
                          ELSE pending_changes \union {event.path}
    /\ UNCHANGED <<tree, files_being_written, download_state_, applying,
                   sent_changes>>
    /\ UNCHANGED <<ServerVars, TransferVars, LockVars, EngineVars, GrpcVars, StoreVars>>

\* ProcessPendingChanges: the pending changes are taken, cleared and sent in
\* one ASK_VERSION_INCREASE.
ProcessPendingChanges ==
    /\ pending_changes # {}
    /\ sent_changes' = pending_changes
    /\ pending_changes' = {}
    /\ UNCHANGED <<tree, events, files_being_written, download_state_,
                   applying>>
    /\ UNCHANGED <<ServerVars, TransferVars, LockVars, EngineVars, GrpcVars, StoreVars>>

NextSync ==
    \/ UserWrite("b")
    \/ RequestFileContents
    \/ SyncHandleFileWrite("a")
    \/ SyncHandleFileWriteEnd
    \/ \E deleted \in BOOLEAN : ApplyBlock(deleted, "a", "b")
    \/ ApplyPerform
    \/ ApplyUnblock
    \/ DeleteMissingFiles("a")
    \/ \E p \in WatchedPaths, own \in BOOLEAN : OnFileEvent(FileEvent(p, own))
    \/ ProcessPendingChanges

SpecSync == Init /\ [][NextSync]_vars

\* C19: an event raised by the engine's own write is never recorded in
\* pending_changes (and so never sent in an ASK_VERSION_INCREASE), whenever
\* the watcher delivers it.
C19_OwnEventsDropped ==
    [][\A event \in events :
          (event.own /\ event \notin events')
              => pending_changes' = pending_changes]_vars

\* ------------------------------------------- the client's metadata stores
\* FileMetadata as the stores see it: id, directory id, current path.
FileMetadata(f, d, p) == [id |-> f, directory_id |-> d, current_path |-> p]

\* AbsPath: std::filesystem::absolute leaves an absolute path as it is and
\* resolves a relative one against the working directory.
AbsPath(p) == IF Head(p) = "/" THEN p ELSE CurrentPath \o p

\* InMemoryFileMetadataStorage::RegisterDirectory: a fresh DirectoryInfo with
\* the path is assigned to directories_[directory_id].
MemRegisterDirectory(directories, d, p) == MapPut(directories, d, DirectoryInfo(p))

\* InMemoryFileMetadataStorage::UpsertFile, the directory being registered.
MemUpsertFile(directories, metadata) ==
    LET info == directories[metadata.directory_id]
        stale == IF metadata.id \in DOMAIN info.files
                    /\ info.files[metadata.id].current_path # metadata.current_path
                 THEN {info.files[metadata.id].current_path}
                 ELSE {}
        index == [q \in DOMAIN info.path_to_id \ stale |-> info.path_to_id[q]]
    IN  [directories EXCEPT ![metadata.directory_id] =
            [path |-> info.path,
             files |-> MapPut(info.files, metadata.id, metadata),
             path_to_id |-> MapPut(index, metadata.current_path, metadata.id)]]

\* SqliteFileMetadataStorage::RegisterDirectory on the tables: INSERT ... ON
\* CONFLICT(directory_id) DO UPDATE SET directory_path; `files` is not touched.
SqlRegisterDirectory(db, d, p) ==
    [db EXCEPT !.directories = MapPut(@, d, AbsPath(p))]

\* SqliteFileMetadataStorage::UpsertFile on the tables: the row of the primary
\* key (directory_id, file_id) is replaced; the unique index on
\* (directory_id, current_path) rejects a path another file of the directory
\* has, and the table is left as it is.
SqlUpsertFile(db, metadata) ==
    LET others == {row \in db.files :
                      ~(row.directory_id = metadata.directory_id
                        /\ row.id = metadata.id)}
        clash == \E row \in others :
                     /\ row.directory_id = metadata.directory_id
                     /\ row.current_path = metadata.current_path
    IN  IF clash THEN db
        ELSE [db EXCEPT !.files = others \union {metadata}]

MemRegister(d, p) ==
    /\ mem_directories_' = MemRegisterDirectory(mem_directories_, d, p)
    /\ UNCHANGED <<sql_db, sql_directories_>>
    /\ UNCHANGED <<ServerVars, TransferVars, LockVars, EngineVars, GrpcVars, SyncVars>>

MemUpsert(metadata) ==
    /\ metadata.directory_id \in DOMAIN mem_directories_
    /\ mem_directories_' = MemUpsertFile(mem_directories_, metadata)
    /\ UNCHANGED <<sql_db, sql_directories_>>
    /\ UNCHANGED <<ServerVars, TransferVars, LockVars, EngineVars, GrpcVars, SyncVars>>

\* InMemoryFileMetadataStorage::UnregisterDirectory.
MemUnregister(d) ==
    /\ d \in DOMAIN mem_directories_
    /\ mem_directories_' = [x \in DOMAIN mem_directories_ \ {d} |->
                               mem_directories_[x]]
    /\ UNCHANGED <<sql_db, sql_directories_>>
    /\ UNCHANGED <<ServerVars, TransferVars, LockVars, EngineVars, GrpcVars, SyncVars>>

SqlRegister(d, p) ==
    /\ sql_db' = SqlRegisterDirectory(sql_db, d, p)
    /\ sql_directories_' = MapPut(sql_directories_, d, AbsPath(p))
    /\ UNCHANGED mem_directories_
    /\ UNCHANGED <<ServerVars, TransferVars, LockVars, EngineVars, GrpcVars, SyncVars>>

SqlUpsert(metadata) ==
    /\ metadata.directory_id \in DOMAIN sql_directories_
    /\ sql_db' = SqlUpsertFile(sql_db, metadata)
    /\ UNCHANGED <<mem_directories_, sql_directories_>>
    /\ UNCHANGED <<ServerVars, TransferVars, LockVars, EngineVars, GrpcVars, SyncVars>>

\* SqliteFileMetadataStorage::UnregisterDirectory: the row is deleted, its
\* files go with it (ON DELETE CASCADE, foreign_keys = ON), the cache entry is
\* erased.
SqlUnregister(d) ==
    /\ d \in DOMAIN sql_directories_
    /\ sql_db' = [directories |-> [x \in DOMAIN sql_db.directories \ {d} |->
                                      sql_db.directories[x]],
                  files |-> {row \in sql_db.files : row.directory_id # d}]
    /\ sql_directories_' = [x \in DOMAIN sql_directories_ \ {d} |->
                               sql_directories_[x]]
    /\ UNCHANGED mem_directories_
    /\ UNCHANGED <<ServerVars, TransferVars, LockVars, EngineVars, GrpcVars, SyncVars>>

StoreMetadata ==
    {FileMetadata(f, d, p) : f \in StoreFiles, d \in StoreDirs, p \in LocalPaths}

NextStore ==
    \/ \E d \in StoreDirs, p \in RootPaths : MemRegister(d, p) \/ SqlRegister(d, p)
    \/ \E metadata \in StoreMetadata : MemUpsert(metadata) \/ SqlUpsert(metadata)
    \/ \E d \in StoreDirs : MemUnregister(d) \/ SqlUnregister(d)

SpecStore == Init /\ [][NextStore]_vars

\* The rows of one directory in the `files` table.
SqlFilesOf(db, d) == {row \in db.files : row.directory_id = d}

\* C20: RegisterDirectory on a registered directory id leaves the set of
\* directories and the directory's file records and path index as they were,
\* in the in-memory and in the SQLite store; the root path becomes the one of
\* the call.
C20_RegisterDirectoryIdempotent ==
    [][\A d \in StoreDirs, p \in RootPaths :
          /\ (/\ d \in DOMAIN mem_directories_
              /\ mem_directories_' = MemRegisterDirectory(mem_directories_, d, p))
                => /\ DOMAIN mem_directories_' = DOMAIN mem_directories_
                   /\ mem_directories_'[d].files = mem_directories_[d].files
                   /\ mem_directories_'[d].path_to_id
                          = mem_directories_[d].path_to_id
                   /\ mem_directories_'[d].path = p
          /\ (/\ d \in DOMAIN sql_directories_
              /\ sql_db' = SqlRegisterDirectory(sql_db, d, p)
              /\ sql_directories_' = MapPut(sql_directories_, d, AbsPath(p)))
                => /\ DOMAIN sql_directories_' = DOMAIN sql_directories_
                   /\ DOMAIN sql_db'.directories = DOMAIN sql_db.directories
                   /\ SqlFilesOf(sql_db', d) = SqlFilesOf(sql_db, d)
                   /\ sql_db'.directories[d] = AbsPath(p)]_vars

\* C21: the arbiter's decision table.  CheckVersionIncrease answers DENIED for
\* an unknown directory and FREE with an empty file id for an unknown file;
\* for an existing file it answers DENIED if last_try is later than the
\* request's time or equal to it with another client, else BLOCKED if another
\* client holds the write lock or the file is being read, else FREE; last_try
\* becomes (time, client) exactly when the answer is FREE for an existing file,
\* and nothing else of the files changes.
C21_ArbiterDecisionTable ==
    [][\A c \in Clients :
          (pc[c] = "idle" /\ pc'[c] = "ask_checked") =>
              LET fi == cur'[c].request[1]
                  res == cur'[c].results[1]
                  fid == FindForCheck(files, path_to_id, fi)
              IN  IF fi.directory_id \notin dirs
                  THEN res.status = DENIED /\ files' = files
                  ELSE IF fid = EmptyId
                  THEN /\ res.status = FREE
                       /\ res.file_id = EmptyId
                       /\ files' = files
                  ELSE
                    LET f == files[fid]
                        t == fi.first_try_time
                        denied == \/ f.last_try.time > t
                                  \/ /\ f.last_try.time = t
                                     /\ f.last_try.connection_id # c
                        blocked == \/ f.status = BLOCKED /\ f.locked_by_client # c
                                   \/ f.is_being_read
                    IN  /\ res.file_id = fid
                        /\ res.status = IF denied THEN DENIED
                                        ELSE IF blocked THEN BLOCKED
                                        ELSE FREE
                        /\ files' = IF res.status = FREE
                                    THEN [files EXCEPT ![fid].last_try =
                                             [time |-> t, connection_id |-> c]]
                                    ELSE files]_vars

\* A request is denied on the tie-break: its time equals last_try's, which
\* another client made.
C21_Witness ==
    \E c \in Clients :
        /\ pc[c] = "ask_checked"
        /\ cur[c].results[1].status = DENIED
        /\ cur[c].results[1].file_id # EmptyId
        /\ LET f == files[cur[c].results[1].file_id]
           IN  /\ f.last_try.time = cur[c].request[1].first_try_time
               /\ f.last_try.connection_id # c

\* ----------------------------------------------------------- SpecReaders
\* Sessions c1 and c2 download the stored file while c3 updates it, with and
\* without content.
NextReaders ==
    \/ \E c \in Actors :
        \/ RecvRead(c, "d1", "f1")
        \/ RdLock(c)
        \/ RdSend(c)
        \/ RdUnlock(c)
    \/ \E c \in Clients \ Actors :
        \/ \E req \in StoredRequests : ~pending[c].active /\ RecvAsk(c, req)
        \/ AskDeny(c)
        \/ AskAllow(c)
        \/ AskLock(c)
        \/ AskApply(c)
        \/ \E data \in ChunkData : FileWrite(c, NextChunk(c, data))
        \/ FileWriteEnd(c)
        \/ NotifyRead(c)
        \/ NotifySend(c)
        \/ Timeout(c)

SpecReaders == InitStored /\ [][NextReaders]_vars

\* The sessions between LockFilesForRead and UnlockFilesAfterRead of file id.
ReadersOf(id) ==
    {c \in Clients : /\ pc[c] \in {"rd_send", "rd_unlock"}
                     /\ cur[c].results[1].file_id = id}

\* C22: reads and writes of one file exclude each other.  No
\* ASK_VERSION_INCREASE for a file is judged FREE while some session is
\* between its LockFilesForRead and UnlockFilesAfterRead of the file, and no
\* REQUEST_FILE_CONTENT is allowed for a file that is write-locked.
C22_ReadWriteExclusion ==
    [][\A c \in Clients :
          /\ (pc[c] = "idle" /\ pc'[c] = "ask_checked")
                => \A i \in 1..Len(cur'[c].results) :
                      ReadersOf(cur'[c].results[i].file_id) # {}
                          => cur'[c].results[i].status # FREE
          /\ (pc[c] = "rd_lock" /\ pc'[c] = "rd_send")
                => files[cur[c].results[1].file_id].status # BLOCKED]_vars

\* ------------------------------------------------------------- SpecStale
\* Two sessions that commit metadata to the path of the stored file, naming it
\* by path, by its id, or by an id that the server does not know.
StaleId == "f0"

StaleRequests ==
    {<<FileInfo(id, "d1", "p1", del, FALSE, t)>> :
        id \in {EmptyId, "f1", StaleId}, del \in BOOLEAN, t \in Times}

NextStale ==
    \E c \in Actors :
        \/ \E req \in StaleRequests : RecvAsk(c, req)
        \/ AskDeny(c)
        \/ AskLock(c)
        \/ AskApply(c)
        \/ NotifyRead(c)
        \/ NotifySend(c)

SpecStale == InitStored /\ [][NextStale]_vars

\* C23: lock and commit resolve the record that CheckVersionIncrease
\* arbitrated.  The step that locks makes every arbitrated record
\* write-locked by the client; the step that commits changes the version only
\* of records the client had locked, and creates no record at a path that a
\* live record of the directory has.
C23_SameRecordResolved ==
    [][\A c \in Clients :
          /\ (pc[c] = "ask_checked" /\ pc'[c] = "ask_apply")
                => \A i \in 1..Len(cur[c].results) :
                      cur[c].results[i].file_id # EmptyId
                          => LET f == files'[cur[c].results[i].file_id]
                             IN  f.status = BLOCKED /\ f.locked_by_client = c
          /\ (pc[c] = "ask_apply" /\ pc'[c] # "ask_apply")
                => /\ \A id \in DOMAIN files :
                          files'[id].version # files[id].version
                              => files[id].locked_by_client = c
                   /\ \A new \in DOMAIN files' \ DOMAIN files :
                          \A id \in DOMAIN files :
                              ~ /\ ~files[id].deleted
                                /\ files[id].directory_id = files'[new].directory_id
                                /\ files[id].current_path = files'[new].current_path]_vars

\* ------------------------------------------------------------- SpecBatch
\* Two sessions whose requests name two files each: the stored file by id,
\* with or without content, and the file at the second path, each entry with
\* its own first_try_time.  A session may ask while its upload is pending.
BatchRequests ==
    {<<FileInfo("f1", "d1", "p1", FALSE, cc, t1),
       FileInfo(EmptyId, "d1", "p2", FALSE, FALSE, t2)>> :
        cc \in BOOLEAN, t1 \in Times, t2 \in Times}

NextBatch ==
    \E c \in Actors :
        \/ \E req \in BatchRequests : RecvAsk(c, req)
        \/ AskDeny(c)
        \/ AskAllow(c)
        \/ AskLock(c)
        \/ AskApply(c)
        \/ \E data \in ChunkData : FileWrite(c, NextChunk(c, data))
        \/ FileWriteEnd(c)
        \/ NotifyRead(c)
        \/ NotifySend(c)
        \/ Timeout(c)

SpecBatch == InitStored /\ [][NextBatch]_vars

\* C24: a request with a file judged not FREE changes nothing but last_try of
\* the files judged FREE.  The check produces one status per requested file
\* and leaves every record as it was but for last_try, which moves only on
\* files judged FREE; the handler then returns to idle (VERSION_INCREASE_DENY)
\* with records, path index, blobs, backups and pending upload untouched.
C24_DenyChangesNothing ==
    [][\A c \in Clients :
          /\ (/\ pc[c] = "idle" /\ pc'[c] = "ask_checked"
              /\ \E i \in 1..Len(cur'[c].results) :
                     cur'[c].results[i].status # FREE)
                => /\ Len(cur'[c].results) = Len(cur'[c].request)
                   /\ DOMAIN files' = DOMAIN files
                   /\ \A id \in DOMAIN files :
                         /\ [files'[id] EXCEPT !.last_try = files[id].last_try]
                                = files[id]
                         /\ files'[id].last_try # files[id].last_try
                               => \E i \in 1..Len(cur'[c].results) :
                                     /\ cur'[c].results[i].file_id = id
                                     /\ cur'[c].results[i].status = FREE
                   /\ UNCHANGED <<path_to_id, backups, disk, pending>>
          /\ (/\ pc[c] = "ask_checked" /\ pc'[c] # "ask_checked"
              /\ \E i \in 1..Len(cur[c].results) :
                     cur[c].results[i].status # FREE)
                => /\ pc'[c] = "idle"
                   /\ UNCHANGED <<files, path_to_id, backups, disk, pending>>]_vars

\* A session whose upload is pending has been denied; of the two files it
\* named one, an existing record, was judged FREE and the other not.
C24_Witness ==
    \E c \in Clients :
        /\ pc[c] = "ask_checked"
        /\ pending[c].active
        /\ \E i, j \in 1..Len(cur[c].results) :
              /\ cur[c].results[i].status # FREE
              /\ cur[c].results[j].status = FREE
              /\ cur[c].results[j].file_id # EmptyId

\* ------------------------------------------------------------ SpecChunks
\* Two sessions that upload content for the stored file with FILE_WRITE chunks
\* of any offset and length that fit the bound, in any order and overlapping.
ChunkBytes == {1, 2}

AnyData == UNION {[1..n -> ChunkBytes] : n \in 1..MaxLen}

AnyChunks ==
    {Chunk("f1", "p1", off, data) : off \in 0..MaxLen, data \in AnyData}

ChunkRequests ==
    {<<FileInfo("f1", "d1", "p1", FALSE, TRUE, t)>> : t \in Times}

NextChunks ==
    \E c \in Actors :
        \/ \E req \in ChunkRequests : ~pending[c].active /\ RecvAsk(c, req)
        \/ AskDeny(c)
        \/ AskAllow(c)
        \/ \E chunk \in AnyChunks : FileWrite(c, chunk)
        \/ FileWriteEnd(c)
        \/ NotifyRead(c)
        \/ NotifySend(c)
        \/ Timeout(c)

SpecChunks == InitStored /\ [][NextChunks]_vars

\* The buffer that holds the chunk's bytes at [off, off + |data|), keeps every
\* other byte of the old buffer, fills a gap with zeros and has the length
\* max(|old|, off + |data|).
Placed(old, off, data) ==
    LET n == IF Len(old) > off + Len(data) THEN Len(old) ELSE off + Len(data)
    IN  [i \in 1..n |->
            IF i > off /\ i <= off + Len(data) THEN data[i - off]
            ELSE IF i <= Len(old) THEN old[i] ELSE 0]

\* C25: every FILE_WRITE chunk of a pending upload, whatever its order and
\* overlap with earlier chunks, leaves the file's buffer with the chunk's
\* bytes at [offset, offset + |data|) and the length max(previous length,
\* offset + |data|); no chunk is written outside the buffer; the commit
\* stores the buffer so assembled.
C25_ChunksAssembled ==
    [][\A c \in Clients :
         /\ (pending[c].active /\ pending'[c].active
             /\ pending'[c].file_contents # pending[c].file_contents)
            => /\ memfault' = memfault
               /\ \E chunk \in AnyChunks :
                    pending'[c].file_contents["p1"]
                        = Placed(Uploaded(pending[c], "p1"),
                                 chunk.offset, chunk.data)
         /\ (pending[c].active /\ pc[c] = "idle" /\ pc'[c] = "end_notify"
             /\ "p1" \in DOMAIN pending[c].file_contents)
            => GetFileContent(files', disk', "f1")
                   = pending[c].file_contents["p1"]]_vars

\* -------------------------------------------------------------- SpecLive
\* Two sessions that update the stored file, under the scheduling the server
\* gives: a handler that has read a message runs to its end, and a stream
\* whose Read has failed is cleaned up.  What a client sends, and whether it
\* sends anything or disconnects, is the client's choice.  The upload timeout
\* is examined only when the next message of that stream has been read, and
\* the server starts no thread that calls Storage::CheckStaleLocks.
HandlerStep(c) ==
    \/ AskDeny(c)
    \/ AskAllow(c)
    \/ AskLock(c)
    \/ AskApply(c)
    \/ NotifyRead(c)
    \/ NotifySend(c)
    \/ TermRemove(c)
    \/ TermRelease(c)

NextLive ==
    \E c \in Actors :
        \/ \E req \in StoredRequests : ~pending[c].active /\ RecvAsk(c, req)
        \/ \E data \in ChunkData : FileWrite(c, NextChunk(c, data))
        \/ FileWriteEnd(c)
        \/ Timeout(c)
        \/ Disconnect(c)
        \/ HandlerStep(c)

SpecLive ==
    /\ InitStored
    /\ [][NextLive]_vars
    /\ \A c \in Actors : WF_vars(HandlerStep(c))

\* C26: every write lock is eventually released: a file that is blocked for
\* write later is free again, whatever the locking client does, also when it
\* stays connected and sends nothing more.
C26_WriteLockReleased ==
    \A f \in AllFileIds :
        (f \in DOMAIN files /\ files[f].status = BLOCKED)
            ~> (f \notin DOMAIN files \/ files[f].status = FREE)

\* -------------------------------------------------------------- SpecRace
\* Two sessions that each upload content for the path p1 of d1, asking while
\* no record holds that path.  The uploads carry zero, one or two bytes.
RaceRequests ==
    {<<FileInfo(EmptyId, "d1", "p1", FALSE, TRUE, t)>> : t \in Times}

RaceData == {<<1>>, <<2>>}

PathIsNew(p) == "d1" \in dirs /\ FindByPath(path_to_id, "d1", p) = EmptyId

NextRace ==
    \E c \in Actors :
        \/ DirectoryCreate(c)
        \/ \E req \in RaceRequests :
               ~pending[c].active /\ PathIsNew("p1") /\ RecvAsk(c, req)
        \/ AskAllow(c)
        \/ \E data \in RaceData : FileWrite(c, NextChunk(c, data))
        \/ FileWriteEnd(c)
        \/ NotifyRead(c)
        \/ NotifySend(c)
        \/ Timeout(c)

SpecRace == Init /\ [][NextRace]_vars

\* The records of d1 that hold path p and are not deleted.
LiveAt(fs, p) ==
    {f \in DOMAIN fs : fs[f].directory_id = "d1" /\ fs[f].current_path = p
                        /\ ~fs[f].deleted}

\* C27: two sessions that ask for the same path while it does not exist are
\* both judged FREE (and so answered VERSION_INCREASE_ALLOW), and when the
\* second of them commits there is exactly one record at the path not deleted,
\* at version 2, holding the content that the second commit uploaded.
C27_ConcurrentCreation ==
    [][\A c \in Actors :
         /\ (pc[c] = "idle" /\ pc'[c] = "ask_checked" /\ PathIsNew("p1"))
            => \A i \in 1..Len(cur'[c].results) :
                   cur'[c].results[i].status = FREE
         /\ (pc[c] = "idle" /\ pending[c].active /\ pc'[c] = "end_notify"
             /\ ~PathIsNew("p1"))
            => /\ Cardinality(LiveAt(files', "p1")) = 1
               /\ \A f \in LiveAt(files', "p1") :
                    /\ files'[f].version = 2
                    /\ GetFileContent(files', disk', f)
                           = Uploaded(pending[c], "p1")]_vars

\* ------------------------------------------------ Synchronizer: the flows
\* One client, subscribed to d1, and the server's records of d1 as the other
\* clients' uploads change them.  One flow runs at a time: the debounce
\* loop's ProcessPendingChanges or one ProcessCheckVersion thread.
FileChangeInfo(id, p) ==
    [file_id |-> id, current_path |-> p, deleted |-> FALSE,
     content_changed |-> TRUE]

\* storage_.GetFileMetadata(directory_id, path): the id of the file the local
\* metadata holds at the path.
IdByPath(st, p) ==
    IF \E id \in DOMAIN st : st[id].current_path = p
    THEN CHOOSE id \in DOMAIN st : st[id].current_path = p
    ELSE Nullopt

\* EventToChangeInfo for a Created or Modified event.
EventToChangeInfo(st, p) == FileChangeInfo(IdByPath(st, p), p)

\* The values of pending_changes in the order of its keys.
ChangesToSend(pcs) ==
    LET ps == SelectSeq(PathOrder, LAMBDA p : p \in DOMAIN pcs)
    IN  [i \in 1..Len(ps) |-> pcs[ps[i]]]

AskMessage(changes) == [type |-> "ASK_VERSION_INCREASE", files |-> changes]

RequestMessage(type, ids) == [type |-> type, files |-> ids]

\* The record the server's CheckVersionIncrease resolves a change to: by id,
\* then by path.
RemoteTarget(rm, ch) ==
    IF ch.file_id \in DOMAIN rm THEN ch.file_id
    ELSE IF \E id \in DOMAIN rm : rm[id].current_path = ch.current_path
    THEN CHOOSE id \in DOMAIN rm : rm[id].current_path = ch.current_path
    ELSE EmptyId

\* The FileStatusInfo the server answers for each change; `older`: the
\* change's first_try_time loses against the record's last_try.
FileStatuses(rm, changes, older) ==
    [i \in 1..Len(changes) |->
        LET t == RemoteTarget(rm, changes[i])
        IN  [id |-> t,
             status |-> IF t = EmptyId THEN FREE
                        ELSE IF rm[t].status = BLOCKED THEN BLOCKED
                        ELSE IF older THEN DENIED ELSE FREE]]

AllStatusFree(statuses) ==
    \A i \in 1..Len(statuses) : statuses[i].status = FREE

\* The server's records after the upload of the changes has committed.
RECURSIVE RemoteApply(_, _, _)
RemoteApply(rm, changes, i) ==
    IF i > Len(changes) THEN rm
    ELSE LET t == RemoteTarget(rm, changes[i])
         IN  IF t # EmptyId
             THEN RemoteApply(
                      [rm EXCEPT ![t].version = @ + 1,
                                 ![t].content_changed_version = rm[t].version + 1],
                      changes, i + 1)
             ELSE RemoteApply(
                      MapPut(rm, RemoteIds[Cardinality(DOMAIN rm) + 1],
                             [RemoteFile EXCEPT
                                 !.current_path = changes[i].current_path]),
                      changes, i + 1)

\* Whether the commit of the changes stays inside the bounds.
RemoteRoom(rm, changes) ==
    \A i \in 1..Len(changes) :
        LET t == RemoteTarget(rm, changes[i])
        IN  IF t # EmptyId THEN rm[t].version < MaxVersion
            ELSE Cardinality(DOMAIN rm) < Len(RemoteIds)

\* GetDirectoryFiles: the CHECK_VERSION listing of the whole directory,
\* without its deleted files.
Listing(rm) ==
    LET ids == SelectSeq(RemoteIds,
                         LAMBDA id : id \in DOMAIN rm /\ ~rm[id].deleted)
    IN  [i \in 1..Len(ids) |-> Metadata(ids[i], rm[ids[i]])]

\* A CHECK_VERSION message as it waits to be processed: its files, and as
\* history the blocked_files of the moment it arrived and whether it answers
\* a REQUEST_VERSION for single files.
CheckVersion(server_files, blocked) ==
    [files |-> server_files, blocked |-> blocked, partial |-> FALSE]

\* The CHECK_VERSION that answers RequestFileVersions.
ListingOf(rm, ids) ==
    LET known == SelectSeq(ids, LAMBDA id : id \in DOMAIN rm)
    IN  [i \in 1..Len(known) |-> Metadata(known[i], rm[known[i]])]

\* storage_.UpsertFile for every FileMetadata of the list.
RECURSIVE UpsertAll(_, _, _)
UpsertAll(st, metas, i) ==
    IF i > Len(metas) THEN st
    ELSE UpsertAll(MapPut(st, metas[i].id, metas[i]), metas, i + 1)

\* Synchronizer::CalculateVersionDiff.
CalculateVersionDiff(st, server_files) ==
    LET listed == {server_files[i].id : i \in 1..Len(server_files)}
        unknown(m) == m.id \notin DOMAIN st
    IN  [to_download |->
            SelectSeq(server_files, LAMBDA m :
                IF unknown(m) THEN m.content_changed_version > 0
                ELSE m.content_changed_version
                         > st[m.id].content_changed_version),
         to_rename_delete |->
            SelectSeq(server_files, LAMBDA m :
                unknown(m) \/ m.current_path # st[m.id].current_path
                           \/ m.deleted # st[m.id].deleted),
         to_upload |->
            LET newer == SelectSeq(server_files, LAMBDA m :
                             ~unknown(m) /\ st[m.id].version > m.version)
            IN  [i \in 1..Len(newer) |-> st[newer[i].id]],
         to_delete_local |->
            {id \in DOMAIN st \ listed : st[id].version > 0}]

\* The end of ProcessCheckVersion, after the downloads: DeleteMissingFiles
\* removes the files the listing lacks, and the files that are newer locally
\* are sent in one ASK_VERSION_INCREASE.
CheckTail(st, have, to_delete_local, to_upload, out) ==
    LET kept == [id \in DOMAIN st \ to_delete_local |-> st[id]]
        changes == [i \in 1..Len(to_upload) |->
                       FileChangeInfo(to_upload[i].id,
                                      to_upload[i].current_path)]
    IN  [storage |-> kept,
         downloaded |-> [id \in DOMAIN have |->
                            IF id \in DOMAIN st \intersect to_delete_local
                            THEN 0 ELSE have[id]],
         sent |-> IF to_upload = <<>> THEN out
                  ELSE Append(out, AskMessage(changes)),
         flow |-> IF to_upload = <<>> THEN NoFlow
                  ELSE [NoFlow EXCEPT !.at = "ask", !.changes = changes,
                                      !.from_check = TRUE]]

\* OnFileEvent for a Created or Modified event of path p, which no download
\* is writing: the change is recorded under state_mutex_.
OnFileEventChange(p) ==
    /\ ~flow.holding
    /\ directory_states_' =
           [directory_states_ EXCEPT
               !.pending_changes = MapPut(@, p, EventToChangeInfo(storage_, p))]
    /\ UNCHANGED <<storage_, downloaded, remote, check_versions, flow, sent,
                   refused>>
    /\ UNCHANGED <<ServerVars, TransferVars, LockVars, GrpcVars, SyncVars, StoreVars>>

\* RequestVersions, as the client subscribes: the server answers with the
\* CHECK_VERSION listing of the directory.
RequestVersions ==
    /\ sent = <<>>
    /\ sent' = Append(sent, RequestMessage("REQUEST_VERSION", <<>>))
    /\ check_versions' =
           Append(check_versions,
                  CheckVersion(Listing(remote), directory_states_.blocked_files))
    /\ UNCHANGED <<directory_states_, storage_, downloaded, remote, flow,
                   refused>>
    /\ UNCHANGED <<ServerVars, TransferVars, LockVars, GrpcVars, SyncVars, StoreVars>>

\* ProcessPendingChanges: the pending changes are copied, cleared, and sent
\* by AskVersionIncrease, which waits for the response.
ProcessPendingChangesAsk ==
    /\ flow.at = "idle"
    /\ directory_states_.pending_changes # EmptyMap
    /\ Len(sent) < MaxSent
    /\ LET changes == ChangesToSend(directory_states_.pending_changes)
       IN  /\ sent' = Append(sent, AskMessage(changes))
           /\ flow' = [NoFlow EXCEPT !.at = "ask", !.changes = changes]
    /\ directory_states_' =
           [directory_states_ EXCEPT !.pending_changes = EmptyMap]
    /\ UNCHANGED <<storage_, downloaded, remote, check_versions, refused>>
    /\ UNCHANGED <<ServerVars, TransferVars, LockVars, GrpcVars, SyncVars, StoreVars>>

\* RequestFileVersions for the denied ids of a flow that ends, and the
\* CHECK_VERSION that answers it.
AfterDenied(denied, out, checks, blocked) ==
    IF denied = <<>> THEN [sent |-> out, checks |-> checks]
    ELSE [sent |-> Append(out, RequestMessage("REQUEST_VERSION", denied)),
          checks |-> Append(checks,
                            [CheckVersion(ListingOf(remote, denied), blocked)
                                EXCEPT !.partial = TRUE])]

\* The server answers VERSION_INCREASE_ALLOW; UploadFileContents sends the
\* files and FILE_WRITE_END, the server commits and answers VERSION_INCREASED,
\* whose metadata is upserted.  A call made by HandleVersionIncreaseDeny then
\* returns into it, and the denied ids are asked for.
VersionIncreaseAllow ==
    /\ flow.at = "ask"
    /\ AllStatusFree(FileStatuses(remote, flow.changes, FALSE))
    /\ RemoteRoom(remote, flow.changes)
    /\ flow.denied # <<>>
           => Len(sent) < MaxSent /\ Len(check_versions) < MaxChecks
    /\ LET rm == RemoteApply(remote, flow.changes, 1)
           updated == SelectSeq(Listing(rm), LAMBDA m :
                          m.id \notin DOMAIN remote
                              \/ m.version # remote[m.id].version)
           after == AfterDenied(flow.denied, sent, check_versions,
                                directory_states_.blocked_files)
       IN  /\ remote' = rm
           /\ storage_' = UpsertAll(storage_, updated, 1)
           /\ downloaded' =
                  [id \in DOMAIN downloaded |->
                      IF \E i \in 1..Len(updated) : updated[i].id = id
                      THEN rm[id].content_changed_version
                      ELSE downloaded[id]]
           /\ refused' = refused \ {updated[i].id : i \in 1..Len(updated)}
           /\ sent' = after.sent
           /\ check_versions' = after.checks
    /\ flow' = NoFlow
    /\ UNCHANGED directory_states_
    /\ UNCHANGED <<ServerVars, TransferVars, LockVars, GrpcVars, SyncVars, StoreVars>>

\* HandleVersionIncreaseDeny, the loop over the file statuses: the changes of
\* the FREE files as pending_changes holds them now ...
RECURSIVE FreeFiles(_, _, _)
FreeFiles(pcs, statuses, i) ==
    IF i > Len(statuses) THEN <<>>
    ELSE LET hits == SelectSeq(ChangesToSend(pcs), LAMBDA ch :
                         ch.file_id = statuses[i].id)
         IN  (IF statuses[i].status = FREE /\ hits # <<>>
              THEN <<Head(hits)>> ELSE <<>>)
                 \o FreeFiles(pcs, statuses, i + 1)

\* ... the ids of the given status ...
IdsOfStatus(statuses, status) ==
    LET hits == SelectSeq(statuses, LAMBDA s : s.status = status)
    IN  [i \in 1..Len(hits) |-> hits[i].id]

\* ... and pending_changes without the changes of the DENIED files.
WithoutDenied(pcs, statuses) ==
    LET gone == {p \in DOMAIN pcs :
                    \E i \in 1..Len(statuses) :
                        /\ statuses[i].status = DENIED
                        /\ pcs[p].file_id = statuses[i].id}
    IN  [p \in DOMAIN pcs \ gone |-> pcs[p]]

\* The server answers VERSION_INCREASE_DENY and AskVersionIncrease calls
\* HandleVersionIncreaseDeny, which takes state_mutex_ for its whole body:
\* the BLOCKED ids go to blocked_files, the DENIED changes leave
\* pending_changes, the FREE changes found in pending_changes are sent in a
\* new AskVersionIncrease, else the denied ids are asked for.
VersionIncreaseDeny(older) ==
    /\ flow.at = "ask"
    /\ ~flow.holding
    /\ LET statuses == FileStatuses(remote, flow.changes, older)
           pcs == directory_states_.pending_changes
           free_files == FreeFiles(pcs, statuses, 1)
           denied == IdsOfStatus(statuses, DENIED)
           blocked == IdsOfStatus(statuses, BLOCKED)
           now_blocked == directory_states_.blocked_files
                              \union {blocked[i] : i \in 1..Len(blocked)}
           after == AfterDenied(denied, sent, check_versions, now_blocked)
       IN  /\ ~AllStatusFree(statuses)
           /\ Len(sent) < MaxSent
           /\ Len(check_versions) < MaxChecks
           /\ directory_states_' =
                  [blocked_files |-> now_blocked,
                   pending_changes |-> WithoutDenied(pcs, statuses)]
           /\ IF free_files # <<>>
              THEN /\ sent' = Append(sent, AskMessage(free_files))
                   /\ check_versions' = check_versions
                   /\ flow' = [flow EXCEPT !.changes = free_files,
                                           !.holding = TRUE,
                                           !.denied = denied,
                                           !.deny = statuses]
              ELSE /\ sent' = after.sent
                   /\ check_versions' = after.checks
                   /\ flow' = [NoFlow EXCEPT !.deny = statuses]
    /\ UNCHANGED <<storage_, downloaded, remote, refused>>
    /\ UNCHANGED <<ServerVars, TransferVars, LockVars, GrpcVars, SyncVars, StoreVars>>

\* The AskVersionIncrease that HandleVersionIncreaseDeny made is denied too:
\* HandleVersionIncreaseDeny locks state_mutex_, which its caller's frame
\* holds.  Locking a std::mutex the thread owns is undefined: the thread
\* blocks for ever, or lock() throws and the thread is terminated.
VersionIncreaseDenyRelock ==
    /\ flow.at = "ask"
    /\ flow.holding
    /\ \E older \in BOOLEAN :
           ~AllStatusFree(FileStatuses(remote, flow.changes, older))
    /\ \E outcome \in {"deadlock", "terminated"} :
           flow' = [flow EXCEPT !.at = outcome]
    /\ UNCHANGED <<directory_states_, storage_, downloaded, remote,
                   check_versions, sent, refused>>
    /\ UNCHANGED <<ServerVars, TransferVars, LockVars, GrpcVars, SyncVars, StoreVars>>

\* HandleCheckVersion drops a CHECK_VERSION without files and starts
\* ProcessCheckVersion on any other: CalculateVersionDiff, then ApplyRenamesAndDeletes, which upserts the
\* server's metadata of every file of to_rename_delete, then
\* RequestFileContents for to_download, which waits for the response; with
\* nothing to download the flow goes on to its end.
ProcessCheckVersion ==
    /\ flow.at = "idle"
    /\ check_versions # <<>>
    /\ Len(sent) < MaxSent
    /\ check_versions' = Tail(check_versions)
    /\ LET diff == CalculateVersionDiff(storage_, Head(check_versions).files)
           applied == UpsertAll(storage_, diff.to_rename_delete, 1)
           tail == CheckTail(applied, downloaded, diff.to_delete_local,
                             diff.to_upload, sent)
           ids == [i \in 1..Len(diff.to_download) |-> diff.to_download[i].id]
       IN  IF Head(check_versions).files = <<>>
           THEN UNCHANGED <<storage_, downloaded, sent, flow>>
           ELSE IF diff.to_download # <<>>
           THEN /\ storage_' = applied
                /\ downloaded' = downloaded
                /\ sent' = Append(sent,
                                  RequestMessage("REQUEST_FILE_CONTENT", ids))
                /\ flow' = [NoFlow EXCEPT !.at = "req", !.changes = ids,
                                          !.to_delete_local = diff.to_delete_local,
                                          !.to_upload = diff.to_upload,
                                          !.from_check = TRUE,
                                          !.seen = Head(check_versions).blocked]
           ELSE /\ storage_' = tail.storage
                /\ downloaded' = tail.downloaded
                /\ sent' = tail.sent
                /\ flow' = tail.flow
    /\ UNCHANGED <<directory_states_, remote, refused>>
    /\ UNCHANGED <<ServerVars, TransferVars, LockVars, GrpcVars, SyncVars, StoreVars>>

\* CheckFilesForRead on the server's records: the requested files that are
\* not FREE, which FILE_CONTENT_REQUEST_DENY lists.
NotFreeForRead(rm, ids) ==
    SelectSeq(ids, LAMBDA id : id \in DOMAIN rm /\ rm[id].status = BLOCKED)

\* The server answers FILE_CONTENT_REQUEST_ALLOW and sends the files; the
\* FILE_WRITE handlers write them and FILE_WRITE_END ends the wait of
\* RequestFileContents.  ProcessCheckVersion goes on to its end.
FileContentRequestAllow ==
    /\ flow.at = "req"
    /\ NotFreeForRead(remote, flow.changes) = <<>>
    /\ flow.to_upload # <<>> => Len(sent) < MaxSent
    /\ LET got == {flow.changes[i] : i \in 1..Len(flow.changes)}
                      \intersect DOMAIN remote
           have == [id \in DOMAIN downloaded |->
                       IF id \in got THEN remote[id].content_changed_version
                       ELSE downloaded[id]]
           tail == CheckTail(storage_, have, flow.to_delete_local,
                             flow.to_upload, sent)
       IN  /\ downloaded' = tail.downloaded
           /\ refused' = refused \ got
           /\ storage_' = tail.storage
           /\ sent' = tail.sent
           /\ flow' = tail.flow
    /\ UNCHANGED <<directory_states_, remote, check_versions>>
    /\ UNCHANGED <<ServerVars, TransferVars, LockVars, GrpcVars, SyncVars, StoreVars>>

\* The server answers FILE_CONTENT_REQUEST_DENY, which lists the files that
\* are not FREE.  HandleFileContentRequestDeny requests the listed files of
\* status FREE again and does nothing for a BLOCKED file; ProcessCheckVersion
\* goes on to its end.
FileContentRequestDeny ==
    /\ flow.at = "req"
    /\ NotFreeForRead(remote, flow.changes) # <<>>
    /\ Len(sent) < MaxSent
    /\ LET listed == NotFreeForRead(remote, flow.changes)
           free_files == SelectSeq(listed, LAMBDA id :
                             remote[id].status = FREE /\ id \in DOMAIN storage_)
           tail == CheckTail(storage_, downloaded, flow.to_delete_local,
                             flow.to_upload, sent)
       IN  /\ refused' = refused \union {listed[i] : i \in 1..Len(listed)}
           /\ IF free_files # <<>>
              THEN /\ sent' = Append(sent,
                                     RequestMessage("REQUEST_FILE_CONTENT",
                                                    free_files))
                   /\ flow' = [flow EXCEPT !.changes = free_files]
                   /\ storage_' = storage_
                   /\ downloaded' = downloaded
              ELSE /\ storage_' = tail.storage
                   /\ downloaded' = tail.downloaded
                   /\ sent' = tail.sent
                   /\ flow' = tail.flow
    /\ UNCHANGED <<directory_states_, remote, check_versions>>
    /\ UNCHANGED <<ServerVars, TransferVars, LockVars, GrpcVars, SyncVars, StoreVars>>

\* Another client is answered VERSION_INCREASE_ALLOW for f1: the file is
\* locked for write.
RemoteLock ==
    /\ remote["f1"].status = FREE
    /\ remote' = [remote EXCEPT !["f1"].status = BLOCKED]
    /\ UNCHANGED <<directory_states_, storage_, downloaded, check_versions,
                   flow, sent, refused>>
    /\ UNCHANGED <<ServerVars, TransferVars, LockVars, GrpcVars, SyncVars, StoreVars>>

\* The other client's upload commits, with or without content: the version
\* is raised, the file is freed, and NotifyFileChanges sends the subscribers
\* the CHECK_VERSION listing of the directory.
RemoteCommit(content_changed) ==
    /\ remote["f1"].status = BLOCKED
    /\ remote["f1"].version < MaxVersion
    /\ Len(check_versions) < MaxChecks
    /\ remote' = [remote EXCEPT
                     !["f1"].version = @ + 1,
                     !["f1"].content_changed_version =
                         IF content_changed THEN remote["f1"].version + 1
                         ELSE @,
                     !["f1"].status = FREE]
    /\ check_versions' =
           Append(check_versions,
                  CheckVersion(Listing(remote'), directory_states_.blocked_files))
    /\ UNCHANGED <<directory_states_, storage_, downloaded, flow, sent,
                   refused>>
    /\ UNCHANGED <<ServerVars, TransferVars, LockVars, GrpcVars, SyncVars, StoreVars>>

\* The other client's upload is rolled back: the file is freed, nobody is
\* notified.
RemoteRollback ==
    /\ remote["f1"].status = BLOCKED
    /\ remote' = [remote EXCEPT !["f1"].status = FREE]
    /\ UNCHANGED <<directory_states_, storage_, downloaded, check_versions,
                   flow, sent, refused>>
    /\ UNCHANGED <<ServerVars, TransferVars, LockVars, GrpcVars, SyncVars, StoreVars>>

NextFlows ==
    \/ \E p \in LocalPaths : OnFileEventChange(p)
    \/ RequestVersions
    \/ ProcessPendingChangesAsk
    \/ VersionIncreaseAllow
    \/ \E older \in BOOLEAN : VersionIncreaseDeny(older)
    \/ VersionIncreaseDenyRelock
    \/ ProcessCheckVersion
    \/ FileContentRequestAllow
    \/ FileContentRequestDeny
    \/ RemoteLock
    \/ \E content_changed \in BOOLEAN : RemoteCommit(content_changed)
    \/ RemoteRollback

SpecFlows == Init /\ [][NextFlows]_vars

\* The flow is handed a VERSION_INCREASE_DENY on this step, and
\* HandleVersionIncreaseDeny runs.
DenyHandled == flow.at = "ask" /\ flow.deny = <<>> /\ flow'.deny # <<>>

\* The flow finishes the processing of a CHECK_VERSION on this step: it has
\* sent what it sends, the download apart.
CheckProcessed ==
    \/ /\ flow.at = "idle"
       /\ check_versions # <<>>
       /\ check_versions' = Tail(check_versions)
       /\ flow'.at # "req"
    \/ flow.at = "req" /\ flow'.at # "req"

\* C28: a change whose ASK_VERSION_INCREASE was answered BLOCKED has its file
\* recorded in blocked_files, and the processing of a CHECK_VERSION of the
\* directory that arrived after that sends an ASK_VERSION_INCREASE that
\* carries a change of every file so recorded.
C28_BlockedChangeResent ==
    [][/\ DenyHandled
          => \A i \in 1..Len(flow'.deny) :
                 flow'.deny[i].status = BLOCKED
                     => flow'.deny[i].id \in directory_states_'.blocked_files
       /\ CheckProcessed
          => \A id \in (IF flow.at = "req" THEN flow.seen
                        ELSE Head(check_versions).blocked) :
                 /\ flow'.at = "ask"
                 /\ \E i \in 1..Len(flow'.changes) :
                        RemoteTarget(remote, flow'.changes[i]) = id]_vars

\* The changes of a request that the statuses of its answer list as FREE.
RECURSIVE FreeChanges(_, _, _)
FreeChanges(changes, statuses, i) ==
    IF i > Len(changes) THEN <<>>
    ELSE (IF statuses[i].status = FREE THEN <<changes[i]>> ELSE <<>>)
             \o FreeChanges(changes, statuses, i + 1)

\* C29: when a VERSION_INCREASE_DENY lists files with status FREE, the client
\* at once sends a new ASK_VERSION_INCREASE with exactly the changes of those
\* files, whichever flow sent the request and whether the files are new or
\* have an id.
C29_FreeChangesResent ==
    [][DenyHandled
          => LET free == FreeChanges(flow.changes, flow'.deny, 1)
             IN  free # <<>>
                    => /\ flow'.at = "ask"
                       /\ flow'.changes = free
                       /\ sent' = Append(sent, AskMessage(free))]_vars

\* C30: a file whose REQUEST_FILE_CONTENT was denied as BLOCKED is requested
\* again when the next CHECK_VERSION listing of the directory shows content
\* the client has not downloaded, whether the file was known locally before
\* or is new to the client.
C30_RefusedContentRequested ==
    [][(flow.at = "idle" /\ check_versions # <<>>
            /\ check_versions' = Tail(check_versions))
          => LET listing == Head(check_versions).files
             IN  \A i \in 1..Len(listing) :
                     (listing[i].id \in refused
                      /\ listing[i].content_changed_version
                             > downloaded[listing[i].id])
                        => /\ flow'.at = "req"
                           /\ \E j \in 1..Len(flow'.changes) :
                                  flow'.changes[j] = listing[i].id]_vars

\* ------------------------------- Synchronizer: ProcessCheckVersion by steps
\* The sequence with the download ahead of the metadata operations.
ProcessCheckVersionOpsDownloadFirst ==
    <<"RequestFileContents", "ApplyRenamesAndDeletes", "DeleteMissingFiles",
      "AskVersionIncrease">>

\* The operations of ProcessCheckVersion in the order of its code; each is
\* performed when its part of the diff is not empty.
ProcessCheckVersionOps ==
    <<"ApplyRenamesAndDeletes", "RequestFileContents", "DeleteMissingFiles",
      "AskVersionIncrease">>

\* Whether the diff the call holds gives the operation something to do.
HasWork(f, op) ==
    CASE op = "ApplyRenamesAndDeletes" -> f.to_rename_delete # <<>>
      [] op = "RequestFileContents"    -> f.to_download # <<>>
      [] op = "DeleteMissingFiles"     -> f.to_delete_local # {}
      [] op = "AskVersionIncrease"     -> f.to_upload # <<>>

\* The position of the operation the call performs next; past the end when
\* it returns.
RECURSIVE NextOp(_, _)
NextOp(f, i) ==
    IF i > Len(ProcessCheckVersionOps) THEN i
    ELSE IF HasWork(f, ProcessCheckVersionOps[i]) THEN i
    ELSE NextOp(f, i + 1)

\* The call is about to perform the operation.
AtOp(op) ==
    /\ flow.at = "check"
    /\ NextOp(flow, flow.next) <= Len(ProcessCheckVersionOps)
    /\ ProcessCheckVersionOps[NextOp(flow, flow.next)] = op

\* The call's locals after the operation.
Performed(op) ==
    [flow EXCEPT !.next = NextOp(flow, flow.next) + 1,
                 !.done = Append(@, op)]

\* HandleCheckVersion drops a CHECK_VERSION without files and starts a
\* ProcessCheckVersion thread for any other; the thread computes the diff.
CheckDiff ==
    /\ flow.at = "idle"
    /\ check_versions # <<>>
    /\ check_versions' = Tail(check_versions)
    /\ LET server_files == Head(check_versions).files
           diff == CalculateVersionDiff(storage_, server_files)
       IN  flow' = IF server_files = <<>> THEN flow ELSE
                   [NoFlow EXCEPT
                       !.at = "check",
                       !.from_check = TRUE,
                       !.seen = Head(check_versions).blocked,
                       !.partial = Head(check_versions).partial,
                       !.server_files = server_files,
                       !.to_rename_delete = diff.to_rename_delete,
                       !.to_download = diff.to_download,
                       !.to_delete_local = diff.to_delete_local,
                       !.to_upload = diff.to_upload]
    /\ UNCHANGED <<directory_states_, storage_, downloaded, remote, sent,
                   refused>>
    /\ UNCHANGED <<ServerVars, TransferVars, LockVars, GrpcVars, SyncVars, StoreVars>>

\* ApplyRenamesAndDeletes: the server's metadata of every file of
\* to_rename_delete is upserted.
CheckApplyRenamesAndDeletes ==
    /\ AtOp("ApplyRenamesAndDeletes")
    /\ storage_' = UpsertAll(storage_, flow.to_rename_delete, 1)
    /\ flow' = Performed("ApplyRenamesAndDeletes")
    /\ UNCHANGED <<directory_states_, downloaded, remote, check_versions,
                   sent, refused>>
    /\ UNCHANGED <<ServerVars, TransferVars, LockVars, GrpcVars, SyncVars, StoreVars>>

\* RequestFileContents sends REQUEST_FILE_CONTENT for to_download and waits
\* for the response.
CheckRequestFileContents ==
    /\ AtOp("RequestFileContents")
    /\ Len(sent) < MaxSent
    /\ LET ids == [i \in 1..Len(flow.to_download) |-> flow.to_download[i].id]
       IN  /\ sent' = Append(sent, RequestMessage("REQUEST_FILE_CONTENT", ids))
           /\ flow' = [Performed("RequestFileContents") EXCEPT
                          !.at = "wait", !.changes = ids]
    /\ UNCHANGED <<directory_states_, storage_, downloaded, remote,
                   check_versions, refused>>
    /\ UNCHANGED <<ServerVars, TransferVars, LockVars, GrpcVars, SyncVars, StoreVars>>

\* The request is allowed, the files arrive and FILE_WRITE_END ends the wait;
\* or it is denied for a BLOCKED file and RequestFileContents returns.
CheckContentResponse ==
    /\ flow.at = "wait"
    /\ LET listed == NotFreeForRead(remote, flow.changes)
           got == {flow.changes[i] : i \in 1..Len(flow.changes)}
                      \intersect DOMAIN remote
       IN  IF listed = <<>>
           THEN /\ downloaded' =
                       [id \in DOMAIN downloaded |->
                           IF id \in got
                           THEN remote[id].content_changed_version
                           ELSE downloaded[id]]
                /\ refused' = refused \ got
           ELSE /\ downloaded' = downloaded
                /\ refused' =
                       refused \union {listed[i] : i \in 1..Len(listed)}
    /\ flow' = [flow EXCEPT !.at = "check", !.changes = <<>>]
    /\ UNCHANGED <<directory_states_, storage_, remote, check_versions, sent>>
    /\ UNCHANGED <<ServerVars, TransferVars, LockVars, GrpcVars, SyncVars, StoreVars>>

\* DeleteMissingFiles removes the files of to_delete_local and their
\* metadata.
CheckDeleteMissingFiles ==
    /\ AtOp("DeleteMissingFiles")
    /\ storage_' = [id \in DOMAIN storage_ \ flow.to_delete_local |->
                       storage_[id]]
    /\ downloaded' = [id \in DOMAIN downloaded |->
                         IF id \in DOMAIN storage_ \intersect flow.to_delete_local
                         THEN 0 ELSE downloaded[id]]
    /\ flow' = Performed("DeleteMissingFiles")
    /\ UNCHANGED <<directory_states_, remote, check_versions, sent, refused>>
    /\ UNCHANGED <<ServerVars, TransferVars, LockVars, GrpcVars, SyncVars, StoreVars>>

\* AskVersionIncrease for the files of to_upload: the request is sent and
\* the call waits for the response.
CheckAskVersionIncrease ==
    /\ AtOp("AskVersionIncrease")
    /\ Len(sent) < MaxSent
    /\ LET changes == [i \in 1..Len(flow.to_upload) |->
                          FileChangeInfo(flow.to_upload[i].id,
                                         flow.to_upload[i].current_path)]
       IN  /\ sent' = Append(sent, AskMessage(changes))
           /\ flow' = [Performed("AskVersionIncrease") EXCEPT
                          !.at = "ask", !.changes = changes]
    /\ UNCHANGED <<directory_states_, storage_, downloaded, remote,
                   check_versions, refused>>
    /\ UNCHANGED <<ServerVars, TransferVars, LockVars, GrpcVars, SyncVars, StoreVars>>

\* ProcessCheckVersion returns.
CheckReturn ==
    /\ flow.at = "check"
    /\ NextOp(flow, flow.next) > Len(ProcessCheckVersionOps)
    /\ flow' = NoFlow
    /\ UNCHANGED <<directory_states_, storage_, downloaded, remote,
                   check_versions, sent, refused>>
    /\ UNCHANGED <<ServerVars, TransferVars, LockVars, GrpcVars, SyncVars, StoreVars>>

NextOrder ==
    \/ \E p \in LocalPaths : OnFileEventChange(p)
    \/ RequestVersions
    \/ ProcessPendingChangesAsk
    \/ VersionIncreaseAllow
    \/ \E older \in BOOLEAN : VersionIncreaseDeny(older)
    \/ CheckDiff
    \/ CheckApplyRenamesAndDeletes
    \/ CheckRequestFileContents
    \/ CheckContentResponse
    \/ CheckDeleteMissingFiles
    \/ CheckAskVersionIncrease
    \/ CheckReturn
    \/ RemoteLock
    \/ \E content_changed \in BOOLEAN : RemoteCommit(content_changed)

SpecOrder == Init /\ [][NextOrder]_vars

\* The operations of `done` were performed in the order the list gives.
InOrder(done, order) ==
    \A i, j \in 1..Len(done) :
        i < j => \E m, n \in 1..Len(order) :
                     m < n /\ order[m] = done[i] /\ order[n] = done[j]

\* C31 as stated: rename and delete metadata operations, then the download
\* request, then the request for the files that are newer locally, and the
\* local deletions last.
C31_DiffAppliedInOrder ==
    InOrder(flow.done,
            <<"ApplyRenamesAndDeletes", "RequestFileContents",
              "AskVersionIncrease", "DeleteMissingFiles">>)

\* C31, amended: rename and delete metadata operations, then the download
\* request, then the local deletions of to_delete_local, and the
\* ASK_VERSION_INCREASE for the files that are newer locally last.
C31_DeletionsBeforeUpload ==
    InOrder(flow.done,
            <<"ApplyRenamesAndDeletes", "RequestFileContents",
              "DeleteMissingFiles", "AskVersionIncrease">>)

\* A call has deleted local files and then asked to upload others; another
\* has applied metadata and then requested content.
C31_Witness ==
    /\ flow.at = "ask"
    /\ Len(flow.done) >= 2
    /\ flow.done[Len(flow.done) - 1] = "DeleteMissingFiles"
    /\ flow.done[Len(flow.done)] = "AskVersionIncrease"
    /\ flow.to_delete_local # {}

\* ------------------------------------- Synchronizer: the download transfer
\* What no step of the download transfer changes.
TransferRest ==
    <<ServerVars, EngineVars, StoreVars, LockVars, call, waiters_, waiter,
      answered, tree, events, pending_changes, applying, sent_changes>>

\* The server's messages: the response to the request of thread t, a
\* FILE_WRITE with one chunk, FILE_WRITE_END.
AllowMessage(t) ==
    [type |-> "FILE_CONTENT_REQUEST_ALLOW", request_id |-> t]

WriteMessage(p, offset, data) ==
    [type |-> "FILE_WRITE", request_id |-> NoId, current_path |-> p,
     offset |-> offset, data |-> data]

EndMessage == [type |-> "FILE_WRITE_END", request_id |-> NoId]

\* HandleRequestFileContent's loop: the chunks of the content from offset on.
RECURSIVE SendChunks(_, _, _)
SendChunks(p, content, offset) ==
    IF offset >= Len(content)
    THEN IF offset = 0 THEN <<WriteMessage(p, 0, <<>>)>> ELSE <<>>
    ELSE LET end == Min(offset + max_chunk_size, Len(content))
         IN  <<WriteMessage(p, offset, SubSeq(content, offset + 1, end))>>
                 \o SendChunks(p, content, end)

\* The bytes of the FILE_WRITE messages of a sequence for path p, in order.
RECURSIVE Concatenation(_, _)
Concatenation(q, p) ==
    IF q = <<>> THEN <<>>
    ELSE (IF Head(q).type = "FILE_WRITE" /\ Head(q).current_path = p
          THEN Head(q).data ELSE <<>>) \o Concatenation(Tail(q), p)

\* RequestFileContents: the request is written to the stream by
\* SendMessageWithResponse.  `alone`: no other call is in progress.
SendRequestFileContent(t, alone) ==
    /\ thread[t] = "new"
    /\ alone => \A u \in Threads \ {t} : thread[u] \in {"new", "done"}
    /\ thread' = [thread EXCEPT ![t] = "sent"]
    /\ requests' = Append(requests, t)
    /\ UNCHANGED <<local_files, ignored, inbound, callback_queue_,
                   download_state_, files_being_written>>
    /\ UNCHANGED TransferRest

\* The server's HandleRequestFileContent for the oldest request: it writes
\* FILE_CONTENT_REQUEST_ALLOW, the chunks of the file and FILE_WRITE_END.
ServeRequestFileContent ==
    /\ requests # <<>>
    /\ LET t == Head(requests)
       IN  inbound' = inbound \o <<AllowMessage(t)>>
                          \o SendChunks(Wanted[t], ServerContent[Wanted[t]], 0)
                          \o <<EndMessage>>
    /\ requests' = Tail(requests)
    /\ UNCHANGED <<thread, local_files, ignored, callback_queue_,
                   download_state_, files_being_written>>
    /\ UNCHANGED TransferRest

\* ReceiveLoop reads a message and ProcessMessage dispatches it: the response
\* goes to the waiter of the call, a message without request id to
\* callback_queue_.
ReceiveMessage ==
    /\ inbound # <<>>
    /\ inbound' = Tail(inbound)
    /\ LET message == Head(inbound)
       IN  IF message.request_id # NoId
           THEN /\ thread' = [thread EXCEPT ![message.request_id] = "responded"]
                /\ UNCHANGED callback_queue_
           ELSE /\ callback_queue_' = Append(callback_queue_, message)
                /\ UNCHANGED thread
    /\ UNCHANGED <<requests, local_files, ignored, download_state_,
                   files_being_written>>
    /\ UNCHANGED TransferRest

\* RequestFileContents after FILE_CONTENT_REQUEST_ALLOW: under transfer_mutex_
\* the files are stored in download_state_ and it is made active.
ActivateDownload(t) ==
    /\ thread[t] = "responded"
    /\ download_state_' = [download_state_ EXCEPT
                              !.active = TRUE, !.files = <<Wanted[t]>>]
    /\ thread' = [thread EXCEPT ![t] = "waiting"]
    /\ UNCHANGED <<requests, local_files, ignored, inbound, callback_queue_,
                   files_being_written>>
    /\ UNCHANGED TransferRest

\* The callback worker hands a FILE_WRITE to Synchronizer::HandleFileWrite:
\* it returns if the download is not active; the first chunk of a file opens
\* the temp file and inserts the final path into files_being_written; the
\* data is written to the stream.
WorkerFileWrite ==
    /\ callback_queue_ # <<>>
    /\ Head(callback_queue_).type = "FILE_WRITE"
    /\ callback_queue_' = Tail(callback_queue_)
    /\ LET message == Head(callback_queue_)
           p == message.current_path
           first == p \notin download_state_.final_paths
           so_far == IF first THEN <<>> ELSE local_files[TempPath(p)]
       IN  IF ~download_state_.active
           THEN /\ ignored' = Append(ignored, message)
                /\ UNCHANGED <<local_files, download_state_,
                               files_being_written>>
           ELSE /\ local_files' =
                       MapPut(local_files, TempPath(p), so_far \o message.data)
                /\ download_state_' =
                       [download_state_ EXCEPT !.final_paths = @ \union {p}]
                /\ files_being_written' =
                       IF first THEN files_being_written \union {p}
                       ELSE files_being_written
                /\ UNCHANGED ignored
    /\ UNCHANGED <<thread, requests, inbound>>
    /\ UNCHANGED TransferRest

\* The callback worker hands FILE_WRITE_END to HandleFileWriteEnd: it returns
\* if the download is not active; every temp file is renamed to its final
\* path, the paths whose rename succeeded are erased from
\* files_being_written, the state is cleared.  `failed`: the paths whose
\* rename fails.
WorkerFileWriteEnd(failed) ==
    /\ callback_queue_ # <<>>
    /\ Head(callback_queue_).type = "FILE_WRITE_END"
    /\ callback_queue_' = Tail(callback_queue_)
    /\ IF ~download_state_.active
       THEN /\ failed = {}
            /\ ignored' = Append(ignored, Head(callback_queue_))
            /\ UNCHANGED <<local_files, download_state_, files_being_written>>
       ELSE LET written_files == download_state_.final_paths \ failed
                temps == {TempPath(p) : p \in written_files}
            IN  /\ failed \subseteq download_state_.final_paths
                /\ local_files' =
                       [p \in (DOMAIN local_files \ temps)
                                  \union written_files |->
                           IF p \in written_files
                           THEN local_files[TempPath(p)]
                           ELSE local_files[p]]
                /\ files_being_written' = files_being_written \ written_files
                /\ download_state_' =
                       [download_state_ EXCEPT !.active = FALSE,
                                               !.final_paths = {}]
                /\ UNCHANGED ignored
    /\ UNCHANGED <<thread, requests, inbound>>
    /\ UNCHANGED TransferRest

\* RequestFileContents, the wait loop: the download is not active any more
\* and the call returns.
DownloadReturn(t) ==
    /\ thread[t] = "waiting"
    /\ ~download_state_.active
    /\ thread' = [thread EXCEPT ![t] = "done"]
    /\ UNCHANGED <<requests, local_files, ignored, inbound, callback_queue_,
                   download_state_, files_being_written>>
    /\ UNCHANGED TransferRest

\* RequestFileContents, the wait loop: 60 seconds have passed with the
\* download still active; the state is cleared and DeadlineExceeded returned.
DownloadTimeout(t) ==
    /\ thread[t] = "waiting"
    /\ download_state_.active
    /\ download_state_' = [download_state_ EXCEPT !.active = FALSE,
                                                  !.final_paths = {}]
    /\ thread' = [thread EXCEPT ![t] = "timeout"]
    /\ UNCHANGED <<requests, local_files, ignored, inbound, callback_queue_,
                   files_being_written>>
    /\ UNCHANGED TransferRest

\* Two CHECK_VERSION messages arrive back to back: each has its own
\* ProcessCheckVersion thread, and the threads run side by side.
NextTransfer ==
    \/ \E t \in Threads :
          \/ SendRequestFileContent(t, FALSE)
          \/ ActivateDownload(t)
          \/ DownloadReturn(t)
    \/ ServeRequestFileContent
    \/ ReceiveMessage
    \/ WorkerFileWrite
    \/ WorkerFileWriteEnd({})

SpecTransfer == Init /\ [][NextTransfer]_vars

\* The call of thread t has sent its REQUEST_FILE_CONTENT and has not
\* returned: its download has not received its FILE_WRITE_END.
InFlight(t) == thread[t] \in {"sent", "responded", "waiting"}

\* C32: at most one download transfer is in flight at any time: no thread
\* sends REQUEST_FILE_CONTENT while the download of another is in flight, and
\* download_state_ is not overwritten while a download is active.
C32_OneDownloadInFlight ==
    [][/\ \A t \in Threads :
             (thread[t] = "new" /\ thread'[t] = "sent")
                 => \A u \in Threads \ {t} : ~InFlight(u)
       /\ \A t \in Threads :
             (thread[t] = "responded" /\ thread'[t] = "waiting")
                 => ~download_state_.active]_vars

\* One ProcessCheckVersion thread after the other: a call starts when no other
\* is in progress; no rename fails and the server is never 60 seconds late.
NextDownload ==
    \/ \E t \in Threads :
          \/ SendRequestFileContent(t, TRUE)
          \/ ActivateDownload(t)
          \/ DownloadReturn(t)
    \/ ServeRequestFileContent
    \/ ReceiveMessage
    \/ WorkerFileWrite
    \/ WorkerFileWriteEnd({})

SpecDownload == Init /\ [][NextDownload]_vars

\* The bytes of all the chunks the server sends for path p.
ChunksSent(p) == Concatenation(SendChunks(p, ServerContent[p], 0), p)

\* C38: no FILE_WRITE and no FILE_WRITE_END that the server sends after
\* FILE_CONTENT_REQUEST_ALLOW is discarded by its handler, whatever the
\* interleaving of the calling thread and the callback worker, and when the
\* call has returned the file in place holds the bytes of all chunks sent.
C38_EveryChunkApplied ==
    /\ ignored = <<>>
    /\ \A t \in Threads :
           thread[t] = "done"
               => /\ Wanted[t] \in DOMAIN local_files
                  /\ local_files[Wanted[t]] = ChunksSent(Wanted[t])

\* One thread after the other; a rename may fail, and the wait of a call may
\* time out.
NextTransferEnd ==
    \/ \E t \in Threads :
          \/ SendRequestFileContent(t, TRUE)
          \/ ActivateDownload(t)
          \/ DownloadReturn(t)
          \/ DownloadTimeout(t)
    \/ ServeRequestFileContent
    \/ ReceiveMessage
    \/ WorkerFileWrite
    \/ \E failed \in SUBSET LocalPaths : WorkerFileWriteEnd(failed)

SpecTransferEnd == Init /\ [][NextTransferEnd]_vars

\* C33: when no download is in progress, by FILE_WRITE_END (a failed rename
\* included) or by the timeout of the wait, no path that a download added is
\* left in files_being_written.
C33_WrittenPathsRemoved ==
    ~download_state_.active => files_being_written = {}

\* ------------------------------------------------ Storage: owners of locks
\* C34: a file's locked_by_client is empty or the id of a client whose
\* session has not ended: no rollback or other step leaves a file locked by
\* a client whose Stream has returned.
C34_LockOwnerConnected ==
    \A f \in DOMAIN files :
        files[f].locked_by_client = NoClient
            \/ ~Closed(files[f].locked_by_client)

\* One session sends an ASK_VERSION_INCREASE for the stored file and one for
\* a new file at another path, in either order, also while an upload of it
\* is pending.
ReaskRequests ==
    {<<FileInfo(id, "d1", p, FALSE, TRUE, t)>> :
        id \in {EmptyId, "f1"}, p \in {"p1", "p2"}, t \in StoredTimes}

NextReask ==
    \/ \E req \in ReaskRequests : RecvAsk("c1", req)
    \/ AskDeny("c1")
    \/ AskAllow("c1")
    \/ \E data \in ChunkData : FileWrite("c1", NextChunk("c1", data))
    \/ FileWriteEnd("c1")
    \/ NotifyRead("c1")
    \/ NotifySend("c1")
    \/ Timeout("c1")
    \/ Disconnect("c1")
    \/ TermRemove("c1")
    \/ TermRelease("c1")

SpecReask == InitStored /\ [][NextReask]_vars

\* The files that the entries of a request resolve to.
NamedIn(req) ==
    {FindForCheck(files, path_to_id, req[i]) : i \in 1..Len(req)} \ {EmptyId}

\* Session c is inside HandleAskVersionIncrease, between LockFilesForWrite
\* and ApplyVersionIncrease of a request without content.
Applying(c) == pc[c] = "ask_apply"

\* C35: every file that is write-locked by a client whose session has not
\* ended is named in that session's pending upload (or in the request its
\* handler is applying).
C35_LocksNamedInPending ==
    \A f \in DOMAIN files :
        LET c == files[f].locked_by_client
        IN  (c # NoClient /\ ~Closed(c))
               => \/ pending[c].active /\ f \in NamedIn(pending[c].request)
                  \/ Applying(c) /\ f \in NamedIn(cur[c].request)

\* C36: while the client processes a CHECK_VERSION that answers a per-file
\* REQUEST_VERSION, it removes no local file and no local metadata of a file
\* that the server holds.
C36_PartialListingDeletesNothing ==
    [][flow.partial
          => \A id \in DOMAIN storage_ \intersect DOMAIN remote :
                 id \in DOMAIN storage_']_vars

\* The diff asks for nothing: no metadata operation, no download, no local
\* deletion, no upload.
EmptyDiff(diff) ==
    /\ diff.to_rename_delete = <<>>
    /\ diff.to_download = <<>>
    /\ diff.to_delete_local = {}
    /\ diff.to_upload = <<>>

\* C39: when ProcessCheckVersion returns from a listing whose downloads have
\* all completed, processing the same listing again computes an empty diff:
\* no REQUEST_FILE_CONTENT, no ASK_VERSION_INCREASE, no local deletion.
C39_ProcessingIdempotent ==
    [][(/\ flow.at = "check"
        /\ flow'.at = "idle"
        /\ \A i \in 1..Len(flow.to_download) :
               flow.to_download[i].id \notin refused)
          => EmptyDiff(CalculateVersionDiff(storage_', flow.server_files))]_vars


\* ------------------------------------------- Synchronizer: deletes of a peer
\* Another client soft-deletes a file: the server marks it deleted, raises
\* its version, and NotifyFileChanges sends the subscribers the listing of
\* the directory, in which the deleted file no longer appears.
RemoteDelete(id) ==
    /\ id \in DOMAIN remote
    /\ ~remote[id].deleted
    /\ remote[id].status = FREE
    /\ remote[id].version < MaxVersion
    /\ Len(check_versions) < MaxChecks
    /\ remote' = [remote EXCEPT ![id].deleted = TRUE,
                                ![id].version = @ + 1]
    /\ check_versions' =
           Append(check_versions,
                  CheckVersion(Listing(remote'), directory_states_.blocked_files))
    /\ UNCHANGED <<directory_states_, storage_, downloaded, flow, sent,
                   refused>>
    /\ UNCHANGED <<ServerVars, TransferVars, LockVars, GrpcVars, SyncVars, StoreVars>>

NextDelete ==
    \/ \E p \in LocalPaths : OnFileEventChange(p)
    \/ ProcessPendingChangesAsk
    \/ VersionIncreaseAllow
    \/ \E id \in {"f1", "f2"} : RemoteDelete(id)
    \/ CheckDiff
    \/ CheckApplyRenamesAndDeletes
    \/ CheckRequestFileContents
    \/ CheckContentResponse
    \/ CheckDeleteMissingFiles
    \/ CheckAskVersionIncrease
    \/ CheckReturn

\* The callback worker and the threads of the synchronizer keep running:
\* a queued CHECK_VERSION is handled, a started ProcessCheckVersion takes
\* its steps, pending changes are sent and the server's response arrives.
SpecDelete ==
    /\ Init
    /\ [][NextDelete]_vars
    /\ WF_vars(ProcessPendingChangesAsk)
    /\ WF_vars(VersionIncreaseAllow)
    /\ WF_vars(CheckDiff)
    /\ WF_vars(CheckApplyRenamesAndDeletes)
    /\ WF_vars(CheckRequestFileContents)
    /\ WF_vars(CheckContentResponse)
    /\ WF_vars(CheckDeleteMissingFiles)
    /\ WF_vars(CheckAskVersionIncrease)
    /\ WF_vars(CheckReturn)

\* The bounds of the model keep the client from going on: no further
\* message fits, or the commit the client waits for would pass MaxVersion.
BoundReached ==
    \/ Len(sent) >= MaxSent
    \/ flow.at = "ask" /\ ~RemoteRoom(remote, flow.changes)

\* C37: a file that another client has soft-deleted on the server and that
\* this client holds is eventually removed from this client's metadata (or
\* is no longer deleted), also when it was the last file of the directory
\* and the notification's listing is empty. Behaviours that run into the
\* bounds of the model are left aside.
C37_DeletesPropagate ==
    \A id \in {"f1", "f2"} :
        (id \in DOMAIN remote /\ remote[id].deleted /\ id \in DOMAIN storage_)
            ~> (\/ id \notin DOMAIN storage_
                \/ ~remote[id].deleted
                \/ BoundReached)


\* --------------------------------------------- GRPCClient: the two mutexes
\* WaitForMessage of call "r1" runs on thread "caller", ProcessMessage of the
\* response to "r1" on the receive thread "reader", StopReceiving on thread
\* "stopper".  Taking a std::mutex is a step of its own that waits until the
\* mutex is free.
LockRest ==
    <<ServerVars, TransferVars, EngineVars, SyncVars, StoreVars, call,
      inbound, answered>>

Free(m) == owner[m] = NoThread

At(t, pos) == position[t] = pos

Goto(t, pos) == position' = [position EXCEPT ![t] = pos]

\* WaitForMessage: `if (!receiving_)` returns at once after StopReceiving;
\* otherwise lock_guard lock(waiters_mutex_).
WaitLockList ==
    /\ At("caller", "start")
    /\ IF At("stopper", "returned")
       THEN Goto("caller", "returned") /\ UNCHANGED owner
       ELSE /\ Free("waiters_mutex_")
            /\ owner' = [owner EXCEPT !["waiters_mutex_"] = "caller"]
            /\ Goto("caller", "push_back")
    /\ UNCHANGED <<waiters_, waiter, callback_queue_, LockRest>>

\* waiters_.push_back(waiter), and the lock_guard ends.
WaitPushBack ==
    /\ At("caller", "push_back")
    /\ waiter' = [waiter EXCEPT !["r1"] = NewWaiter]
    /\ waiters_' = waiters_ \union {"r1"}
    /\ owner' = [owner EXCEPT !["waiters_mutex_"] = NoThread]
    /\ Goto("caller", "registered")
    /\ UNCHANGED <<callback_queue_, LockRest>>

\* unique_lock lock(waiter->mutex).
WaitLockWaiter ==
    /\ At("caller", "registered")
    /\ Free("waiter")
    /\ owner' = [owner EXCEPT !["waiter"] = "caller"]
    /\ Goto("caller", "loop")
    /\ UNCHANGED <<waiters_, waiter, callback_queue_, LockRest>>

\* `while (!waiter->done)`: with done the call returns and the unique_lock
\* ends; otherwise cv.wait_until releases waiter->mutex and waits.
WaitCheckDone ==
    /\ At("caller", "loop")
    /\ owner' = [owner EXCEPT !["waiter"] = NoThread]
    /\ Goto("caller", IF waiter["r1"].done THEN "returned" ELSE "wait_until")
    /\ UNCHANGED <<waiters_, waiter, callback_queue_, LockRest>>

\* cv.wait_until returns, having taken waiter->mutex again: after the
\* deadline with cv_status::timeout, after notify_one with no_timeout.
WaitUntil(timeout) ==
    /\ At("caller", "wait_until")
    /\ Free("waiter")
    /\ timeout \/ waiter["r1"].done
    /\ owner' = [owner EXCEPT !["waiter"] = "caller"]
    /\ Goto("caller", IF timeout THEN "timeout" ELSE "loop")
    /\ UNCHANGED <<waiters_, waiter, callback_queue_, LockRest>>

\* The timeout branch: lock_guard waiters_lock(waiters_mutex_), taken while
\* waiter->mutex is held.
WaitTimeoutLockList ==
    /\ At("caller", "timeout")
    /\ Free("waiters_mutex_")
    /\ owner' = [owner EXCEPT !["waiters_mutex_"] = "caller"]
    /\ Goto("caller", "erase")
    /\ UNCHANGED <<waiters_, waiter, callback_queue_, LockRest>>

\* waiters_.erase(...); return DeadlineExceededError: both locks end.
WaitErase ==
    /\ At("caller", "erase")
    /\ waiters_' = waiters_ \ {"r1"}
    /\ owner' = [m \in Mutexes |-> NoThread]
    /\ Goto("caller", "returned")
    /\ UNCHANGED <<waiter, callback_queue_, LockRest>>

\* ProcessMessage: lock_guard lock(waiters_mutex_).  ReceiveLoop reads no
\* message once StopReceiving has joined it.
ProcessLockList ==
    /\ At("reader", "start")
    /\ ~At("stopper", "returned")
    /\ Free("waiters_mutex_")
    /\ owner' = [owner EXCEPT !["waiters_mutex_"] = "reader"]
    /\ Goto("reader", "scan")
    /\ UNCHANGED <<waiters_, waiter, callback_queue_, LockRest>>

\* The loop over waiters_: the waiter of "r1" accepts the message, or no
\* waiter does, the lock_guard ends and the message is queued for the
\* callback worker.
ProcessScan ==
    /\ At("reader", "scan")
    /\ IF "r1" \in waiters_
       THEN /\ Goto("reader", "matched")
            /\ UNCHANGED <<owner, callback_queue_>>
       ELSE /\ owner' = [owner EXCEPT !["waiters_mutex_"] = NoThread]
            /\ callback_queue_' = Append(callback_queue_, ServerMessage("r1"))
            /\ Goto("reader", "returned")
    /\ UNCHANGED <<waiters_, waiter, LockRest>>

\* lock_guard waiter_lock(waiter->mutex), taken while waiters_mutex_ is held.
ProcessLockWaiter ==
    /\ At("reader", "matched")
    /\ Free("waiter")
    /\ owner' = [owner EXCEPT !["waiter"] = "reader"]
    /\ Goto("reader", "deliver")
    /\ UNCHANGED <<waiters_, waiter, callback_queue_, LockRest>>

\* result, done, notify_one, erase, return: both locks end.
ProcessDeliver ==
    /\ At("reader", "deliver")
    /\ waiter' = [waiter EXCEPT !["r1"] = [done |-> TRUE, result |-> "r1"]]
    /\ waiters_' = waiters_ \ {"r1"}
    /\ owner' = [m \in Mutexes |-> NoThread]
    /\ Goto("reader", "returned")
    /\ UNCHANGED <<callback_queue_, LockRest>>

\* StopReceiving: lock_guard lock(waiters_mutex_).
StopLockList ==
    /\ At("stopper", "start")
    /\ Free("waiters_mutex_")
    /\ owner' = [owner EXCEPT !["waiters_mutex_"] = "stopper"]
    /\ Goto("stopper", "scan")
    /\ UNCHANGED <<waiters_, waiter, callback_queue_, LockRest>>

\* The loop over waiters_: with a waiter it goes on to take its mutex; with
\* none waiters_.clear() and the lock_guard ends.
StopScan ==
    /\ At("stopper", "scan")
    /\ IF waiters_ # {}
       THEN Goto("stopper", "cancel") /\ UNCHANGED owner
       ELSE /\ owner' = [owner EXCEPT !["waiters_mutex_"] = NoThread]
            /\ Goto("stopper", "join")
    /\ UNCHANGED <<waiters_, waiter, callback_queue_, LockRest>>

\* lock_guard waiter_lock(waiter->mutex), taken while waiters_mutex_ is held.
StopLockWaiter ==
    /\ At("stopper", "cancel")
    /\ Free("waiter")
    /\ owner' = [owner EXCEPT !["waiter"] = "stopper"]
    /\ Goto("stopper", "cancelled")
    /\ UNCHANGED <<waiters_, waiter, callback_queue_, LockRest>>

\* cancelled, done, notify_one; waiters_.clear(): both locks end.
StopCancel ==
    /\ At("stopper", "cancelled")
    /\ waiter' = [waiter EXCEPT !["r1"] = [done |-> TRUE, result |-> NoId]]
    /\ waiters_' = {}
    /\ owner' = [m \in Mutexes |-> NoThread]
    /\ Goto("stopper", "join")
    /\ UNCHANGED <<callback_queue_, LockRest>>

\* receive_thread_.join() returns when ReceiveLoop is not inside
\* ProcessMessage.
StopJoin ==
    /\ At("stopper", "join")
    /\ At("reader", "start") \/ At("reader", "returned")
    /\ Goto("stopper", "returned")
    /\ UNCHANGED <<owner, waiters_, waiter, callback_queue_, LockRest>>

CallerStep ==
    \/ WaitLockList
    \/ WaitPushBack
    \/ WaitLockWaiter
    \/ WaitCheckDone
    \/ \E timeout \in BOOLEAN : WaitUntil(timeout)
    \/ WaitTimeoutLockList
    \/ WaitErase

ReaderStep ==
    \/ ProcessLockList
    \/ ProcessScan
    \/ ProcessLockWaiter
    \/ ProcessDeliver

StopperStep ==
    \/ StopLockList
    \/ StopScan
    \/ StopLockWaiter
    \/ StopCancel
    \/ StopJoin

NextLocks == CallerStep \/ ReaderStep \/ StopperStep

\* Every thread that can take a step takes one: a thread stands still only
\* while the mutex it wants is held, or at its end.
SpecLocks ==
    /\ Init
    /\ [][NextLocks]_vars
    /\ WF_vars(CallerStep)
    /\ WF_vars(ReaderStep)
    /\ WF_vars(StopperStep)

\* C40: WaitForMessage, ProcessMessage and StopReceiving, once begun, each
\* complete, in every interleaving.
C40_WaiterCallsComplete ==
    \A t \in LockThreads :
        (position[t] # "start") ~> (position[t] = "returned")

=============================================================================
